---- MODULE Spec2Model ----
(***************************************************************************)
(* Outbound integration fabric of the policy engine: the IntegrationsConfig *)
(* (config.rs), the Integrations registry (integration/mod.rs) and the      *)
(* three upstream adapters SchemaRegistryAdapter, ConfigManagerAdapter and  *)
(* ObservatoryAdapter.  The transport core (integration/client.rs) and the  *)
(* six legacy clients follow the design specification of the transport     *)
(* core: one typed exchange per call, one timeout budget, four failures.    *)
(***************************************************************************)
EXTENDS Integers, Sequences, FiniteSets, TLC

VARIABLES
    env,            \* the process environment read by Config::from_env
    app_config,     \* the Config of the program, NoConfig before it is loaded
    config,         \* the IntegrationsConfig handed to Integrations::from_config
    registry,       \* the Integrations value, NoRegistry before from_config ran
    lastQuery,      \* the last synchronous query answered and its value
    calls,          \* per caller: the adapter call it is awaiting or has got back
    invocations,    \* adapter operations invoked so far
    requests_sent   \* transport-core requests put on the wire so far

vars == <<env, app_config, config, registry, lastQuery, calls, invocations, requests_sent>>

-----------------------------------------------------------------------------
(* Bounds of the model *)

\* largest configured timeout_ms explored (0 is explored too)
MaxTimeoutMs == 2
\* largest latency, in ms, of a remote that does answer
MaxLatency == 1
\* adapter operations invoked in one behaviour
MaxInvocations == 2
\* environment variables set when the program starts
MaxEnvVars == 2

-----------------------------------------------------------------------------
(* Option<T> *)

None == [is_some |-> FALSE]
Some(x) == [is_some |-> TRUE, val |-> x]


-----------------------------------------------------------------------------
(* config.rs *)

\* the 9 service slots, in the order of the fields of Integrations
LegacySlots == {"shield", "costops", "governance", "edge_agent",
                "incident_manager", "sentinel"}
UpstreamSlots == {"schema_registry", "config_manager", "observatory"}
Slots == LegacySlots \cup UpstreamSlots

\* URL strings explored: a well-formed one and the empty (malformed) one
Urls == {"http://obs:9000", ""}
UrlOptions == {None} \cup {Some(u) : u \in Urls}

\* the field of IntegrationsConfig that holds the URL of a slot
UrlOf(cfg, slot) ==
    CASE slot = "shield"           -> cfg.shield_url
      [] slot = "costops"          -> cfg.costops_url
      [] slot = "governance"       -> cfg.governance_url
      [] slot = "edge_agent"       -> cfg.edge_agent_url
      [] slot = "incident_manager" -> cfg.incident_manager_url
      [] slot = "sentinel"         -> cfg.sentinel_url
      [] slot = "schema_registry"  -> cfg.schema_registry_url
      [] slot = "config_manager"   -> cfg.config_manager_url
      [] slot = "observatory"      -> cfg.observatory_url

IntegrationsConfig(urls, ms, fail_on_error) ==
    [shield_url           |-> urls["shield"],
     costops_url          |-> urls["costops"],
     governance_url       |-> urls["governance"],
     edge_agent_url       |-> urls["edge_agent"],
     incident_manager_url |-> urls["incident_manager"],
     sentinel_url         |-> urls["sentinel"],
     schema_registry_url  |-> urls["schema_registry"],
     config_manager_url   |-> urls["config_manager"],
     observatory_url      |-> urls["observatory"],
     timeout_ms           |-> ms,
     fail_on_error        |-> fail_on_error]

\* std::time::Duration::from_millis: whole seconds and the nanoseconds left over
Duration_from_millis(ms) ==
    [secs |-> ms \div 1000, nanos |-> (ms % 1000) * 1000000]

\* Duration::as_millis
Duration_as_millis(d) == d.secs * 1000 + d.nanos \div 1000000

\* timeout() reading timeout_ms as seconds
timeout_from_secs(cfg) == [secs |-> cfg.timeout_ms, nanos |-> 0]

\* IntegrationsConfig::timeout
timeout(cfg) == Duration_from_millis(cfg.timeout_ms)

-----------------------------------------------------------------------------
(* config.rs: Config, its defaults, the process environment *)

ServerConfig_default ==
    [host |-> "0.0.0.0", port |-> 3000, grpc_port |-> 50051,
     request_timeout_ms |-> 30000]

CacheConfig_default ==
    [enabled |-> TRUE, l1_max_entries |-> 10000, l1_ttl_seconds |-> 300,
     l2_enabled |-> FALSE, redis_url |-> None, redis_prefix |-> "llm-policy:",
     l2_ttl_seconds |-> 600]

\* trace_sampling_ratio is the f64 1.0
TelemetryConfig_default ==
    [enabled |-> TRUE, service_name |-> "llm-policy-engine",
     otlp_endpoint |-> None, metrics_port |-> 9090, metrics_path |-> "/metrics",
     log_level |-> "info", json_logs |-> FALSE, trace_sampling_ratio |-> 1]

\* IntegrationsConfig::default with one URL preset
IntegrationsConfig_default_local_observatory ==
    IntegrationsConfig(
        [s \in Slots |-> IF s = "observatory" THEN Some("http://obs:9000")
                         ELSE None],
        5000, FALSE)

IntegrationsConfig_default ==
    IntegrationsConfig([s \in Slots |-> None], 5000, FALSE)

PerformanceConfig_default ==
    [max_policy_size_mb |-> 10, max_evaluation_time_ms |-> 100,
     parallel_evaluation |-> TRUE, max_concurrent_evaluations |-> 1000,
     wasm_memory_limit_mb |-> 64, cel_timeout_ms |-> 50]

SecurityConfig_default ==
    [auth_enabled |-> FALSE, jwt_secret |-> None, jwt_algorithm |-> "HS256",
     jwt_expiration_seconds |-> 3600, api_key_header |-> "X-API-Key",
     rate_limit_enabled |-> TRUE, rate_limit_rps |-> 1000,
     rate_limit_burst |-> 100]

\* Config::default
Config_default ==
    [server       |-> ServerConfig_default,
     cache        |-> CacheConfig_default,
     telemetry    |-> TelemetryConfig_default,
     integrations |-> IntegrationsConfig_default,
     performance  |-> PerformanceConfig_default,
     security     |-> SecurityConfig_default]

\* std::result::Result
Result_Ok(v) == [is_ok |-> TRUE, val |-> v]
Result_Err(e) == [is_ok |-> FALSE, err |-> e]

\* Result::unwrap_or
unwrap_or(r, fallback) == IF r.is_ok THEN r.val ELSE fallback

\* the environment variables from_env reads, and the variable of each slot
UrlVars == {"LLM_SHIELD_URL", "LLM_COSTOPS_URL", "LLM_GOVERNANCE_URL",
            "LLM_EDGE_AGENT_URL", "INCIDENT_MANAGER_URL", "SENTINEL_URL",
            "LLM_SCHEMA_REGISTRY_URL", "LLM_CONFIG_MANAGER_URL",
            "LLM_OBSERVATORY_URL"}
PortVars == {"PORT", "GRPC_PORT"}
BoolVars == {"CACHE_ENABLED", "TELEMETRY_ENABLED", "AUTH_ENABLED"}
TextVars == {"HOST", "REDIS_URL", "OTLP_ENDPOINT", "LOG_LEVEL", "JWT_SECRET"}
EnvVars == UrlVars \cup PortVars \cup BoolVars \cup TextVars

VarOf(slot) ==
    CASE slot = "shield"           -> "LLM_SHIELD_URL"
      [] slot = "costops"          -> "LLM_COSTOPS_URL"
      [] slot = "governance"       -> "LLM_GOVERNANCE_URL"
      [] slot = "edge_agent"       -> "LLM_EDGE_AGENT_URL"
      [] slot = "incident_manager" -> "INCIDENT_MANAGER_URL"
      [] slot = "sentinel"         -> "SENTINEL_URL"
      [] slot = "schema_registry"  -> "LLM_SCHEMA_REGISTRY_URL"
      [] slot = "config_manager"   -> "LLM_CONFIG_MANAGER_URL"
      [] slot = "observatory"      -> "LLM_OBSERVATORY_URL"

\* what the process environment holds for a variable: nothing, a value that
\* is valid Unicode, or a value that is not
Unset == [set |-> FALSE]
NotUnicode == [set |-> TRUE, unicode |-> FALSE]
Set(s) == [set |-> TRUE, unicode |-> TRUE, val |-> s]

\* the values explored for each variable
PortStrings == {"8080", "abc", "70000"}
BoolStrings == {"true", "false", "1"}
BoolWords == {"true", "false"}
PortValues == {Set(x) : x \in PortStrings} \cup {NotUnicode}
BoolValues == {Set(x) : x \in BoolStrings} \cup {NotUnicode}
UrlValues == {Set(x) : x \in Urls} \cup {NotUnicode}
TextValues == {Set("text"), NotUnicode}
EnvValues(name) ==
    IF name \in PortVars THEN PortValues
    ELSE IF name \in BoolVars THEN BoolValues
    ELSE IF name \in UrlVars THEN UrlValues
    ELSE TextValues

\* the environment with no variable set
EmptyEnv == [name \in EnvVars |-> Unset]

\* std::env::var: Ok(value) only for a variable that is set to valid Unicode
env_var(e, name) ==
    IF ~e[name].set THEN Result_Err("NotPresent")
    ELSE IF ~e[name].unicode THEN Result_Err("NotUnicode")
    ELSE Result_Ok(e[name].val)

\* str::parse::<u16> on the strings explored: decimal digits within 0..65535
parse_u16(str) ==
    IF str = "8080" THEN Result_Ok(8080) ELSE Result_Err("ParseIntError")

\* str::parse::<bool>: exactly "true" and "false"
parse_bool(str) ==
    IF str = "true" THEN Result_Ok(TRUE)
    ELSE IF str = "false" THEN Result_Ok(FALSE)
    ELSE Result_Err("ParseBoolError")

\* Config::from_env that fails on a value it cannot parse
from_env_strict(e) ==
    LET d == Config_default
        text(name, old) ==
            IF env_var(e, name).is_ok THEN env_var(e, name).val ELSE old
        opt(name, old) ==
            IF env_var(e, name).is_ok THEN Some(env_var(e, name).val) ELSE old
        flag(name, fallback, old) ==
            IF env_var(e, name).is_ok
            THEN unwrap_or(parse_bool(env_var(e, name).val), fallback)
            ELSE old
        port(name, fallback, old) ==
            IF env_var(e, name).is_ok
            THEN unwrap_or(parse_u16(env_var(e, name).val), fallback)
            ELSE old
        server ==
            [d.server EXCEPT
                 !.port = port("PORT", 3000, @),
                 !.grpc_port = port("GRPC_PORT", 50051, @),
                 !.host = text("HOST", @)]
        cache ==
            [d.cache EXCEPT
                 !.enabled = flag("CACHE_ENABLED", TRUE, @),
                 !.redis_url = opt("REDIS_URL", @),
                 !.l2_enabled = IF env_var(e, "REDIS_URL").is_ok THEN TRUE ELSE @]
        telemetry ==
            [d.telemetry EXCEPT
                 !.enabled = flag("TELEMETRY_ENABLED", TRUE, @),
                 !.otlp_endpoint = opt("OTLP_ENDPOINT", @),
                 !.log_level = text("LOG_LEVEL", @)]
        integrations ==
            [d.integrations EXCEPT
                 !.shield_url = opt("LLM_SHIELD_URL", @),
                 !.costops_url = opt("LLM_COSTOPS_URL", @),
                 !.governance_url = opt("LLM_GOVERNANCE_URL", @),
                 !.edge_agent_url = opt("LLM_EDGE_AGENT_URL", @),
                 !.incident_manager_url = opt("INCIDENT_MANAGER_URL", @),
                 !.sentinel_url = opt("SENTINEL_URL", @),
                 !.schema_registry_url = opt("LLM_SCHEMA_REGISTRY_URL", @),
                 !.config_manager_url = opt("LLM_CONFIG_MANAGER_URL", @),
                 !.observatory_url = opt("LLM_OBSERVATORY_URL", @)]
        security ==
            [d.security EXCEPT
                 !.jwt_secret = opt("JWT_SECRET", @),
                 !.auth_enabled = flag("AUTH_ENABLED", FALSE, @)]
        config_ == [server       |-> server,
                    cache        |-> cache,
                    telemetry    |-> telemetry,
                    integrations |-> integrations,
                    performance  |-> d.performance,
                    security     |-> security]
    IN  IF \E name \in PortVars :
               env_var(e, name).is_ok /\ ~parse_u16(env_var(e, name).val).is_ok
        THEN Result_Err("invalid port")
        ELSE Result_Ok(config_)

\* Config::from_env that stores LLM_CONFIG_MANAGER_URL in the schema registry
\* field as well
from_env_crossed_urls(e) ==
    LET d == Config_default
        text(name, old) ==
            IF env_var(e, name).is_ok THEN env_var(e, name).val ELSE old
        opt(name, old) ==
            IF env_var(e, name).is_ok THEN Some(env_var(e, name).val) ELSE old
        flag(name, fallback, old) ==
            IF env_var(e, name).is_ok
            THEN unwrap_or(parse_bool(env_var(e, name).val), fallback)
            ELSE old
        port(name, fallback, old) ==
            IF env_var(e, name).is_ok
            THEN unwrap_or(parse_u16(env_var(e, name).val), fallback)
            ELSE old
        server ==
            [d.server EXCEPT
                 !.port = port("PORT", 3000, @),
                 !.grpc_port = port("GRPC_PORT", 50051, @),
                 !.host = text("HOST", @)]
        cache ==
            [d.cache EXCEPT
                 !.enabled = flag("CACHE_ENABLED", TRUE, @),
                 !.redis_url = opt("REDIS_URL", @),
                 !.l2_enabled = IF env_var(e, "REDIS_URL").is_ok THEN TRUE ELSE @]
        telemetry ==
            [d.telemetry EXCEPT
                 !.enabled = flag("TELEMETRY_ENABLED", TRUE, @),
                 !.otlp_endpoint = opt("OTLP_ENDPOINT", @),
                 !.log_level = text("LOG_LEVEL", @)]
        integrations ==
            [d.integrations EXCEPT
                 !.shield_url = opt("LLM_SHIELD_URL", @),
                 !.costops_url = opt("LLM_COSTOPS_URL", @),
                 !.governance_url = opt("LLM_GOVERNANCE_URL", @),
                 !.edge_agent_url = opt("LLM_EDGE_AGENT_URL", @),
                 !.incident_manager_url = opt("INCIDENT_MANAGER_URL", @),
                 !.sentinel_url = opt("SENTINEL_URL", @),
                 !.schema_registry_url = opt("LLM_CONFIG_MANAGER_URL",
                                           opt("LLM_SCHEMA_REGISTRY_URL", @)),
                 !.config_manager_url = opt("LLM_CONFIG_MANAGER_URL", @),
                 !.observatory_url = opt("LLM_OBSERVATORY_URL", @)]
        security ==
            [d.security EXCEPT
                 !.jwt_secret = opt("JWT_SECRET", @),
                 !.auth_enabled = flag("AUTH_ENABLED", FALSE, @)]
        config_ == [server       |-> server,
                    cache        |-> cache,
                    telemetry    |-> telemetry,
                    integrations |-> integrations,
                    performance  |-> d.performance,
                    security     |-> security]
    IN  Result_Ok(config_)

\* Config::from_env that switches the L2 cache on whatever REDIS_URL is
from_env_l2_by_default(e) ==
    LET d == Config_default
        text(name, old) ==
            IF env_var(e, name).is_ok THEN env_var(e, name).val ELSE old
        opt(name, old) ==
            IF env_var(e, name).is_ok THEN Some(env_var(e, name).val) ELSE old
        flag(name, fallback, old) ==
            IF env_var(e, name).is_ok
            THEN unwrap_or(parse_bool(env_var(e, name).val), fallback)
            ELSE old
        port(name, fallback, old) ==
            IF env_var(e, name).is_ok
            THEN unwrap_or(parse_u16(env_var(e, name).val), fallback)
            ELSE old
        server ==
            [d.server EXCEPT
                 !.port = port("PORT", 3000, @),
                 !.grpc_port = port("GRPC_PORT", 50051, @),
                 !.host = text("HOST", @)]
        cache ==
            [d.cache EXCEPT
                 !.enabled = flag("CACHE_ENABLED", TRUE, @),
                 !.redis_url = opt("REDIS_URL", @),
                 !.l2_enabled = TRUE]
        telemetry ==
            [d.telemetry EXCEPT
                 !.enabled = flag("TELEMETRY_ENABLED", TRUE, @),
                 !.otlp_endpoint = opt("OTLP_ENDPOINT", @),
                 !.log_level = text("LOG_LEVEL", @)]
        integrations ==
            [d.integrations EXCEPT
                 !.shield_url = opt("LLM_SHIELD_URL", @),
                 !.costops_url = opt("LLM_COSTOPS_URL", @),
                 !.governance_url = opt("LLM_GOVERNANCE_URL", @),
                 !.edge_agent_url = opt("LLM_EDGE_AGENT_URL", @),
                 !.incident_manager_url = opt("INCIDENT_MANAGER_URL", @),
                 !.sentinel_url = opt("SENTINEL_URL", @),
                 !.schema_registry_url = opt("LLM_SCHEMA_REGISTRY_URL", @),
                 !.config_manager_url = opt("LLM_CONFIG_MANAGER_URL", @),
                 !.observatory_url = opt("LLM_OBSERVATORY_URL", @)]
        security ==
            [d.security EXCEPT
                 !.jwt_secret = opt("JWT_SECRET", @),
                 !.auth_enabled = flag("AUTH_ENABLED", FALSE, @)]
        config_ == [server       |-> server,
                    cache        |-> cache,
                    telemetry    |-> telemetry,
                    integrations |-> integrations,
                    performance  |-> d.performance,
                    security     |-> security]
    IN  Result_Ok(config_)

\* Config::from_env: the default configuration with one override per variable
\* that std::env::var returns
from_env(e) ==
    LET d == Config_default
        text(name, old) ==
            IF env_var(e, name).is_ok THEN env_var(e, name).val ELSE old
        opt(name, old) ==
            IF env_var(e, name).is_ok THEN Some(env_var(e, name).val) ELSE old
        flag(name, fallback, old) ==
            IF env_var(e, name).is_ok
            THEN unwrap_or(parse_bool(env_var(e, name).val), fallback)
            ELSE old
        port(name, fallback, old) ==
            IF env_var(e, name).is_ok
            THEN unwrap_or(parse_u16(env_var(e, name).val), fallback)
            ELSE old
        server ==
            [d.server EXCEPT
                 !.port = port("PORT", 3000, @),
                 !.grpc_port = port("GRPC_PORT", 50051, @),
                 !.host = text("HOST", @)]
        cache ==
            [d.cache EXCEPT
                 !.enabled = flag("CACHE_ENABLED", TRUE, @),
                 !.redis_url = opt("REDIS_URL", @),
                 !.l2_enabled = IF env_var(e, "REDIS_URL").is_ok THEN TRUE ELSE @]
        telemetry ==
            [d.telemetry EXCEPT
                 !.enabled = flag("TELEMETRY_ENABLED", TRUE, @),
                 !.otlp_endpoint = opt("OTLP_ENDPOINT", @),
                 !.log_level = text("LOG_LEVEL", @)]
        integrations ==
            [d.integrations EXCEPT
                 !.shield_url = opt("LLM_SHIELD_URL", @),
                 !.costops_url = opt("LLM_COSTOPS_URL", @),
                 !.governance_url = opt("LLM_GOVERNANCE_URL", @),
                 !.edge_agent_url = opt("LLM_EDGE_AGENT_URL", @),
                 !.incident_manager_url = opt("INCIDENT_MANAGER_URL", @),
                 !.sentinel_url = opt("SENTINEL_URL", @),
                 !.schema_registry_url = opt("LLM_SCHEMA_REGISTRY_URL", @),
                 !.config_manager_url = opt("LLM_CONFIG_MANAGER_URL", @),
                 !.observatory_url = opt("LLM_OBSERVATORY_URL", @)]
        security ==
            [d.security EXCEPT
                 !.jwt_secret = opt("JWT_SECRET", @),
                 !.auth_enabled = flag("AUTH_ENABLED", FALSE, @)]
        config_ == [server       |-> server,
                    cache        |-> cache,
                    telemetry    |-> telemetry,
                    integrations |-> integrations,
                    performance  |-> d.performance,
                    security     |-> security]
    IN  Result_Ok(config_)

\* Config::validate that accepts an enabled L2 cache without redis_url
validate_without_cache_rule(cfg) ==
    IF cfg.security.auth_enabled /\ ~cfg.security.jwt_secret.is_some
    THEN Result_Err("JWT_SECRET must be set when authentication is enabled")
    ELSE IF cfg.performance.max_evaluation_time_ms = 0
    THEN Result_Err("max_evaluation_time_ms must be greater than 0")
    ELSE Result_Ok("()")

\* Config::validate
validate(cfg) ==
    IF cfg.security.auth_enabled /\ ~cfg.security.jwt_secret.is_some
    THEN Result_Err("JWT_SECRET must be set when authentication is enabled")
    ELSE IF cfg.cache.l2_enabled /\ ~cfg.cache.redis_url.is_some
    THEN Result_Err("REDIS_URL must be set when L2 cache is enabled")
    ELSE IF cfg.performance.max_evaluation_time_ms = 0
    THEN Result_Err("max_evaluation_time_ms must be greater than 0")
    ELSE Result_Ok("()")

\* no Config loaded yet
NoConfig == [by |-> "none"]

-----------------------------------------------------------------------------
(* integration/client.rs: the transport core (endpoint descriptor) *)

\* IntegrationClient::new: keeps the base URL and the timeout, nothing else
IntegrationClient_new(base_url, tmo) ==
    [base_url |-> base_url, timeout |-> tmo]

\* the six legacy clients: each owns one transport core
ShieldClient_new(base_url, tmo) == [client |-> IntegrationClient_new(base_url, tmo)]
CostOpsClient_new(base_url, tmo) == [client |-> IntegrationClient_new(base_url, tmo)]
GovernanceClient_new(base_url, tmo) == [client |-> IntegrationClient_new(base_url, tmo)]
EdgeAgentClient_new(base_url, tmo) == [client |-> IntegrationClient_new(base_url, tmo)]
IncidentManagerClient_new(base_url, tmo) == [client |-> IntegrationClient_new(base_url, tmo)]
SentinelClient_new(base_url, tmo) == [client |-> IntegrationClient_new(base_url, tmo)]

-----------------------------------------------------------------------------
(* adapter constructors *)

\* SchemaRegistryAdapter::new
SchemaRegistryAdapter_new(base_url, tmo) ==
    [client |-> IntegrationClient_new(base_url, tmo)]

\* ConfigManagerAdapter::new that ignores the timeout it is given and uses the
\* default of 5000 ms
ConfigManagerAdapter_new_default_timeout(base_url, tmo) ==
    [client    |-> IntegrationClient_new(base_url, Duration_from_millis(5000)),
     namespace |-> "policy-engine"]

\* ConfigManagerAdapter::new
ConfigManagerAdapter_new(base_url, tmo) ==
    [client    |-> IntegrationClient_new(base_url, tmo),
     namespace |-> "policy-engine"]

\* ConfigManagerAdapter::with_namespace
ConfigManagerAdapter_with_namespace(base_url, tmo, namespace) ==
    [client    |-> IntegrationClient_new(base_url, tmo),
     namespace |-> namespace]

\* ObservatoryAdapter::new
ObservatoryAdapter_new(base_url, tmo) ==
    [client       |-> IntegrationClient_new(base_url, tmo),
     service_name |-> "llm-policy-engine"]

\* ObservatoryAdapter::with_service_name
ObservatoryAdapter_with_service_name(base_url, tmo, service_name) ==
    [client       |-> IntegrationClient_new(base_url, tmo),
     service_name |-> service_name]

-----------------------------------------------------------------------------
(* integration/mod.rs: the registry *)

\* the registry before Integrations::from_config has run
NoRegistry == [constructed |-> FALSE]

\* from_config with a copy-paste slip: the sentinel slot reads shield_url
from_config_sentinel_reads_shield(cfg) ==
    [shield           |-> IF cfg.shield_url.is_some
                          THEN Some(ShieldClient_new(cfg.shield_url.val, timeout(cfg)))
                          ELSE None,
     costops          |-> IF cfg.costops_url.is_some
                          THEN Some(CostOpsClient_new(cfg.costops_url.val, timeout(cfg)))
                          ELSE None,
     governance       |-> IF cfg.governance_url.is_some
                          THEN Some(GovernanceClient_new(cfg.governance_url.val, timeout(cfg)))
                          ELSE None,
     edge_agent       |-> IF cfg.edge_agent_url.is_some
                          THEN Some(EdgeAgentClient_new(cfg.edge_agent_url.val, timeout(cfg)))
                          ELSE None,
     incident_manager |-> IF cfg.incident_manager_url.is_some
                          THEN Some(IncidentManagerClient_new(cfg.incident_manager_url.val, timeout(cfg)))
                          ELSE None,
     sentinel         |-> IF cfg.shield_url.is_some
                          THEN Some(SentinelClient_new(cfg.shield_url.val, timeout(cfg)))
                          ELSE None,
     schema_registry  |-> IF cfg.schema_registry_url.is_some
                          THEN Some(SchemaRegistryAdapter_new(cfg.schema_registry_url.val, timeout(cfg)))
                          ELSE None,
     config_manager   |-> IF cfg.config_manager_url.is_some
                          THEN Some(ConfigManagerAdapter_new(cfg.config_manager_url.val, timeout(cfg)))
                          ELSE None,
     observatory      |-> IF cfg.observatory_url.is_some
                          THEN Some(ObservatoryAdapter_new(cfg.observatory_url.val, timeout(cfg)))
                          ELSE None]

\* from_config with a copy-paste slip: the observatory slot reads config_manager_url
from_config_observatory_reads_config_manager(cfg) ==
    [shield           |-> IF cfg.shield_url.is_some
                          THEN Some(ShieldClient_new(cfg.shield_url.val, timeout(cfg)))
                          ELSE None,
     costops          |-> IF cfg.costops_url.is_some
                          THEN Some(CostOpsClient_new(cfg.costops_url.val, timeout(cfg)))
                          ELSE None,
     governance       |-> IF cfg.governance_url.is_some
                          THEN Some(GovernanceClient_new(cfg.governance_url.val, timeout(cfg)))
                          ELSE None,
     edge_agent       |-> IF cfg.edge_agent_url.is_some
                          THEN Some(EdgeAgentClient_new(cfg.edge_agent_url.val, timeout(cfg)))
                          ELSE None,
     incident_manager |-> IF cfg.incident_manager_url.is_some
                          THEN Some(IncidentManagerClient_new(cfg.incident_manager_url.val, timeout(cfg)))
                          ELSE None,
     sentinel         |-> IF cfg.sentinel_url.is_some
                          THEN Some(SentinelClient_new(cfg.sentinel_url.val, timeout(cfg)))
                          ELSE None,
     schema_registry  |-> IF cfg.schema_registry_url.is_some
                          THEN Some(SchemaRegistryAdapter_new(cfg.schema_registry_url.val, timeout(cfg)))
                          ELSE None,
     config_manager   |-> IF cfg.config_manager_url.is_some
                          THEN Some(ConfigManagerAdapter_new(cfg.config_manager_url.val, timeout(cfg)))
                          ELSE None,
     observatory      |-> IF cfg.config_manager_url.is_some
                          THEN Some(ObservatoryAdapter_new(cfg.config_manager_url.val, timeout(cfg)))
                          ELSE None]

\* from_config that leaves the slot of an empty URL unpopulated
from_config_skips_empty_url(cfg) ==
    LET usable(u) == u.is_some /\ u.val # ""
    IN  [shield           |-> IF usable(cfg.shield_url)
                              THEN Some(ShieldClient_new(cfg.shield_url.val, timeout(cfg)))
                              ELSE None,
         costops          |-> IF usable(cfg.costops_url)
                              THEN Some(CostOpsClient_new(cfg.costops_url.val, timeout(cfg)))
                              ELSE None,
         governance       |-> IF usable(cfg.governance_url)
                              THEN Some(GovernanceClient_new(cfg.governance_url.val, timeout(cfg)))
                              ELSE None,
         edge_agent       |-> IF usable(cfg.edge_agent_url)
                              THEN Some(EdgeAgentClient_new(cfg.edge_agent_url.val, timeout(cfg)))
                              ELSE None,
         incident_manager |-> IF usable(cfg.incident_manager_url)
                              THEN Some(IncidentManagerClient_new(cfg.incident_manager_url.val, timeout(cfg)))
                              ELSE None,
         sentinel         |-> IF usable(cfg.sentinel_url)
                              THEN Some(SentinelClient_new(cfg.sentinel_url.val, timeout(cfg)))
                              ELSE None,
         schema_registry  |-> IF usable(cfg.schema_registry_url)
                              THEN Some(SchemaRegistryAdapter_new(cfg.schema_registry_url.val, timeout(cfg)))
                              ELSE None,
         config_manager   |-> IF usable(cfg.config_manager_url)
                              THEN Some(ConfigManagerAdapter_new(cfg.config_manager_url.val, timeout(cfg)))
                              ELSE None,
         observatory      |-> IF usable(cfg.observatory_url)
                              THEN Some(ObservatoryAdapter_new(cfg.observatory_url.val, timeout(cfg)))
                              ELSE None]

\* Integrations::from_config; url.as_ref().map(f) is None for None and
\* Some(f(url)) for Some(url)
from_config(cfg) ==
    [shield           |-> IF cfg.shield_url.is_some
                          THEN Some(ShieldClient_new(cfg.shield_url.val, timeout(cfg)))
                          ELSE None,
     costops          |-> IF cfg.costops_url.is_some
                          THEN Some(CostOpsClient_new(cfg.costops_url.val, timeout(cfg)))
                          ELSE None,
     governance       |-> IF cfg.governance_url.is_some
                          THEN Some(GovernanceClient_new(cfg.governance_url.val, timeout(cfg)))
                          ELSE None,
     edge_agent       |-> IF cfg.edge_agent_url.is_some
                          THEN Some(EdgeAgentClient_new(cfg.edge_agent_url.val, timeout(cfg)))
                          ELSE None,
     incident_manager |-> IF cfg.incident_manager_url.is_some
                          THEN Some(IncidentManagerClient_new(cfg.incident_manager_url.val, timeout(cfg)))
                          ELSE None,
     sentinel         |-> IF cfg.sentinel_url.is_some
                          THEN Some(SentinelClient_new(cfg.sentinel_url.val, timeout(cfg)))
                          ELSE None,
     schema_registry  |-> IF cfg.schema_registry_url.is_some
                          THEN Some(SchemaRegistryAdapter_new(cfg.schema_registry_url.val, timeout(cfg)))
                          ELSE None,
     config_manager   |-> IF cfg.config_manager_url.is_some
                          THEN Some(ConfigManagerAdapter_new(cfg.config_manager_url.val, timeout(cfg)))
                          ELSE None,
     observatory      |-> IF cfg.observatory_url.is_some
                          THEN Some(ObservatoryAdapter_new(cfg.observatory_url.val, timeout(cfg)))
                          ELSE None]

\* Integrations::any_configured without its last disjunct
any_configured_without_observatory(self) ==
    \/ self.shield.is_some
    \/ self.costops.is_some
    \/ self.governance.is_some
    \/ self.edge_agent.is_some
    \/ self.incident_manager.is_some
    \/ self.sentinel.is_some
    \/ self.schema_registry.is_some
    \/ self.config_manager.is_some

\* any_configured that was not extended when the upstream adapters were added
any_configured_legacy_only(self) ==
    \/ self.shield.is_some
    \/ self.costops.is_some
    \/ self.governance.is_some
    \/ self.edge_agent.is_some
    \/ self.incident_manager.is_some
    \/ self.sentinel.is_some

\* Integrations::any_configured
any_configured(self) ==
    \/ self.shield.is_some
    \/ self.costops.is_some
    \/ self.governance.is_some
    \/ self.edge_agent.is_some
    \/ self.incident_manager.is_some
    \/ self.sentinel.is_some
    \/ self.schema_registry.is_some
    \/ self.config_manager.is_some
    \/ self.observatory.is_some

\* any_upstream_configured that also counts a legacy slot
any_upstream_configured_counts_sentinel(self) ==
    \/ self.sentinel.is_some
    \/ self.schema_registry.is_some
    \/ self.config_manager.is_some
    \/ self.observatory.is_some

\* Integrations::any_upstream_configured
any_upstream_configured(self) ==
    \/ self.schema_registry.is_some
    \/ self.config_manager.is_some
    \/ self.observatory.is_some

\* the slots of a constructed registry that hold an adapter
Populated(reg) == {s \in Slots : reg[s].is_some}

\* no aggregate query answered yet
NoQuery == [op |-> "none"]

-----------------------------------------------------------------------------
(* Registry lifecycle: construction and the aggregate queries *)

\* every IntegrationsConfig over the explored URLs and timeouts
AllConfigs ==
    {IntegrationsConfig(urls, ms, f) : urls \in [Slots -> UrlOptions],
                                       ms \in 0..MaxTimeoutMs,
                                       f \in BOOLEAN}

\* no caller exists while only the registry is exercised
NoCalls == << >>

InitRegistry ==
    /\ config \in AllConfigs
    /\ registry = NoRegistry
    /\ lastQuery = NoQuery
    /\ env = EmptyEnv
    /\ app_config = NoConfig
    /\ calls = NoCalls
    /\ invocations = 0
    /\ requests_sent = 0

\* from_config that probes every adapter it has just built
FromConfig_probing ==
    /\ registry = NoRegistry
    /\ registry' = from_config(config)
    /\ requests_sent' = requests_sent + Cardinality(Populated(from_config(config)))
    /\ UNCHANGED <<env, app_config, config, lastQuery, calls, invocations>>

\* startup: the registry is built once from the resolved configuration
FromConfig ==
    /\ registry = NoRegistry
    /\ registry' = from_config(config)
    /\ UNCHANGED <<env, app_config, config, lastQuery, calls, invocations, requests_sent>>

\* a component asks the registry whether anything is configured
AnyConfigured ==
    /\ registry # NoRegistry
    /\ lastQuery' = [op |-> "any_configured", value |-> any_configured(registry)]
    /\ UNCHANGED <<env, app_config, config, registry, calls, invocations, requests_sent>>

\* a component asks the registry whether an upstream adapter is configured
AnyUpstreamConfigured ==
    /\ registry # NoRegistry
    /\ lastQuery' = [op    |-> "any_upstream_configured",
                     value |-> any_upstream_configured(registry)]
    /\ UNCHANGED <<env, app_config, config, registry, calls, invocations, requests_sent>>

NextRegistry ==
    \/ FromConfig
    \/ AnyConfigured
    \/ AnyUpstreamConfigured

SpecRegistry == InitRegistry /\ [][NextRegistry]_vars

-----------------------------------------------------------------------------
(* integration/client.rs: requests, remote behaviour and IntegrationResult *)

\* IntegrationResult<T>: Ok(value) or one of the four failures
Ok(v) == [ok |-> TRUE, value |-> v]
Err(kind) == [ok |-> FALSE, error |-> kind]
RemoteError(status) == [ok |-> FALSE, error |-> "RemoteError", status |-> status]

\* what an operation holds while its transport call has not returned
Pending == [ok |-> FALSE, error |-> "pending"]

\* the value of type ()
Unit == [type |-> "unit"]

\* a payload of a domain type, and the absent request body of a GET
Payload(t) == [type |-> t]
NoBody == [type |-> "none"]

\* IntegrationClient::get::<T>(path): one read request at base_url + path
client_get(client, path, expect) ==
    [method |-> "GET", url |-> client.base_url \o path, path |-> path,
     body |-> NoBody, expect |-> expect, budget |-> client.timeout]

\* IntegrationClient::post::<T, B>(path, body): one write request at base_url + path
client_post(client, path, body, expect) ==
    [method |-> "POST", url |-> client.base_url \o path, path |-> path,
     body |-> body, expect |-> expect, budget |-> client.timeout]

\* IntegrationClient::health_check: one liveness probe against the base URL
client_health_check(client) ==
    [method |-> "GET", url |-> client.base_url, path |-> "",
     body |-> NoBody, expect |-> "probe", budget |-> client.timeout]

\* response bodies: a JSON document, bytes that are no JSON, an error page
Json(doc) == [kind |-> "json", doc |-> doc]
Garbage == [kind |-> "garbage"]
ErrorPage == [kind |-> "error"]

\* JSON documents a remote may send where an EventAck is expected: complete,
\* without the optional event_id, without the required accepted
EventAckDocs ==
    {[accepted |-> TRUE, event_id |-> "evt-1"],
     [accepted |-> FALSE],
     [event_id |-> "evt-1"]}

\* the JSON object {} and the empty HashMap
EmptyObject == [f \in {} |-> 0]
HashMap_new == [k \in {} |-> 0]

\* JSON documents a remote may send where an EnforcementParams is expected:
\* every optional field absent, every field given
EnforcementParamsDocs ==
    {EmptyObject,
     [strict_mode |-> TRUE, default_decision |-> "allow",
      max_evaluation_time_ms |-> 250, fail_open |-> TRUE,
      audit_level |-> "full", rate_limits |-> [enabled |-> TRUE]]}

\* JSON documents a remote may send where a RuleThresholds is expected; a
\* threshold of type f64 is written as the integer it equals
RuleThresholdsDocs ==
    {EmptyObject,
     [cost_threshold |-> 20, token_limit |-> 4096, request_rate_limit |-> 10,
      latency_threshold_ms |-> 800, error_rate_threshold |-> 1,
      custom |-> HashMap_new]}

\* JSON documents a remote may send where a PolicySettings is expected
PolicySettingsDocs ==
    {EmptyObject,
     [enabled_namespaces |-> <<"tenant-a">>, disabled_policies |-> <<"p-1">>,
      priority_overrides |-> HashMap_new, environment |-> "staging",
      cache_ttl_seconds |-> 60, hot_reload_enabled |-> FALSE]}

\* JSON documents a remote may send where a FeatureFlags is expected
FeatureFlagsDocs ==
    {EmptyObject,
     [parallel_evaluation |-> FALSE, cel_enabled |-> FALSE,
      wasm_enabled |-> TRUE, distributed_cache |-> TRUE,
      advanced_telemetry |-> FALSE, custom |-> HashMap_new]}

\* JSON documents a remote may send where a value of type expect is expected
DocsFor(expect) ==
    CASE expect = "EventAck"          -> EventAckDocs
      [] expect = "EnforcementParams" -> EnforcementParamsDocs
      [] expect = "RuleThresholds"    -> RuleThresholdsDocs
      [] expect = "PolicySettings"    -> PolicySettingsDocs
      [] expect = "FeatureFlags"      -> FeatureFlagsDocs
      [] OTHER                        -> {[type |-> expect]}

\* status codes and bodies a remote service may answer with
SuccessStatuses == {200, 202}
FailureStatuses == {404, 500}
FailureResponses ==
    {[status |-> st, body |-> ErrorPage] : st \in FailureStatuses}
Responses(expect) ==
    {[status |-> st, body |-> b] :
        st \in SuccessStatuses,
        b \in {Json(doc) : doc \in DocsFor(expect)} \cup {Garbage}}
    \cup FailureResponses

\* a remote end that refuses the connection, one that accepts it and never
\* answers
Unanswered == {[kind |-> "refuse"], [kind |-> "silent"]}

\* what the remote end does with one request: refuse the connection, accept
\* it and never answer, or answer after latency ms
ServerBehaviours(expect) ==
    Unanswered
    \cup {[kind |-> "respond", latency |-> l, status |-> r.status, body |-> r.body] :
            l \in 0..MaxLatency, r \in Responses(expect)}

\* the response arrives within the budget of the call
AnswersWithin(server, budget_ms) ==
    server.kind = "respond" /\ server.latency < budget_ms

\* EventAck whose event_id is dropped by deserialization
EventAck_deserialize_drops_event_id(doc) ==
    IF "accepted" \in DOMAIN doc
    THEN Some([accepted |-> doc.accepted, event_id |-> None])
    ELSE None

\* serde's Deserialize of EventAck: accepted is required, event_id is an
\* Option that is None when the field is missing
EventAck_deserialize(doc) ==
    IF "accepted" \in DOMAIN doc
    THEN Some([accepted |-> doc.accepted,
               event_id |-> IF "event_id" \in DOMAIN doc
                            THEN Some(doc.event_id) ELSE None])
    ELSE None

\* serde's value for a field of a JSON object: the field when the object has
\* it, the field's default otherwise
field_or(doc, name, default) == IF name \in DOMAIN doc THEN doc[name] ELSE default

\* #[derive(Default)] of RateLimitConfig: the Default of each field's type
RateLimitConfig_default ==
    [enabled |-> FALSE, requests_per_second |-> 0, burst_size |-> 0]

\* serde's Deserialize of RateLimitConfig: default, default_rps, default_burst
RateLimitConfig_deserialize(doc) ==
    [enabled             |-> field_or(doc, "enabled", FALSE),
     requests_per_second |-> field_or(doc, "requests_per_second", 1000),
     burst_size          |-> field_or(doc, "burst_size", 100)]

\* impl Default for EnforcementParams
EnforcementParams_default ==
    [strict_mode            |-> FALSE,
     default_decision       |-> "deny",
     max_evaluation_time_ms |-> 100,
     fail_open              |-> FALSE,
     audit_level            |-> "standard",
     rate_limits            |-> RateLimitConfig_default]

\* serde's Deserialize of EnforcementParams: every field has a default
EnforcementParams_deserialize(doc) ==
    Some([strict_mode            |-> field_or(doc, "strict_mode", FALSE),
          default_decision       |-> field_or(doc, "default_decision", "deny"),
          max_evaluation_time_ms |-> field_or(doc, "max_evaluation_time_ms", 100),
          fail_open              |-> field_or(doc, "fail_open", FALSE),
          audit_level            |-> field_or(doc, "audit_level", "standard"),
          rate_limits            |->
              IF "rate_limits" \in DOMAIN doc
              THEN RateLimitConfig_deserialize(doc.rate_limits)
              ELSE RateLimitConfig_default])

\* impl Default for RuleThresholds (100.0 and 5.0 written as integers)
RuleThresholds_default ==
    [cost_threshold       |-> 100,
     token_limit          |-> 100000,
     request_rate_limit   |-> 1000,
     latency_threshold_ms |-> 5000,
     error_rate_threshold |-> 5,
     custom               |-> HashMap_new]

\* serde's Deserialize of RuleThresholds: every field is #[serde(default)],
\* the Default of the field's type (0.0, 0, an empty map)
RuleThresholds_deserialize(doc) ==
    Some([cost_threshold       |-> field_or(doc, "cost_threshold", 0),
          token_limit          |-> field_or(doc, "token_limit", 0),
          request_rate_limit   |-> field_or(doc, "request_rate_limit", 0),
          latency_threshold_ms |-> field_or(doc, "latency_threshold_ms", 0),
          error_rate_threshold |-> field_or(doc, "error_rate_threshold", 0),
          custom               |-> field_or(doc, "custom", HashMap_new)])

\* impl Default for PolicySettings
PolicySettings_default ==
    [enabled_namespaces |-> <<"default">>,
     disabled_policies  |-> <<>>,
     priority_overrides |-> HashMap_new,
     environment        |-> "production",
     cache_ttl_seconds  |-> 300,
     hot_reload_enabled |-> TRUE]

\* serde's Deserialize of PolicySettings: the first four fields are
\* #[serde(default)], the last two default_cache_ttl and default_hot_reload
PolicySettings_deserialize(doc) ==
    Some([enabled_namespaces |-> field_or(doc, "enabled_namespaces", <<>>),
          disabled_policies  |-> field_or(doc, "disabled_policies", <<>>),
          priority_overrides |-> field_or(doc, "priority_overrides", HashMap_new),
          environment        |-> field_or(doc, "environment", ""),
          cache_ttl_seconds  |-> field_or(doc, "cache_ttl_seconds", 300),
          hot_reload_enabled |-> field_or(doc, "hot_reload_enabled", TRUE)])

\* impl Default for FeatureFlags
FeatureFlags_default ==
    [parallel_evaluation |-> TRUE,
     cel_enabled         |-> TRUE,
     wasm_enabled        |-> FALSE,
     distributed_cache   |-> FALSE,
     advanced_telemetry  |-> TRUE,
     custom              |-> HashMap_new]

\* serde's Deserialize of FeatureFlags: default_true or the bool default
FeatureFlags_deserialize(doc) ==
    Some([parallel_evaluation |-> field_or(doc, "parallel_evaluation", TRUE),
          cel_enabled         |-> field_or(doc, "cel_enabled", TRUE),
          wasm_enabled        |-> field_or(doc, "wasm_enabled", FALSE),
          distributed_cache   |-> field_or(doc, "distributed_cache", FALSE),
          advanced_telemetry  |-> field_or(doc, "advanced_telemetry", TRUE),
          custom              |-> field_or(doc, "custom", HashMap_new)])

\* deserialization of a success body into the expected type: the value, or
\* None when the body is no JSON or does not have the shape of the type
Deserialize(expect, body) ==
    IF body.kind # "json" THEN None
    ELSE IF expect = "EventAck" THEN EventAck_deserialize(body.doc)
    ELSE IF expect = "EnforcementParams" THEN EnforcementParams_deserialize(body.doc)
    ELSE IF expect = "RuleThresholds" THEN RuleThresholds_deserialize(body.doc)
    ELSE IF expect = "PolicySettings" THEN PolicySettings_deserialize(body.doc)
    ELSE IF expect = "FeatureFlags" THEN FeatureFlags_deserialize(body.doc)
    ELSE IF body.doc = [type |-> expect] THEN Some(Payload(expect))
    ELSE None

\* the transport core's classification of one finished exchange
TransportResult(req, server) ==
    IF server.kind = "refuse" THEN Err("TransportError")
    ELSE IF ~AnswersWithin(server, Duration_as_millis(req.budget)) THEN Err("Timeout")
    ELSE IF server.status \notin 200..299 THEN RemoteError(server.status)
    ELSE LET v == Deserialize(req.expect, server.body)
         IN  IF v.is_some THEN Ok(v.val) ELSE Err("DecodeError")

\* the transport core's probe: true only for a success within budget
ProbeResult(req, server) == TransportResult(req, server).ok

\* the moment, in ms after the request left, at which the exchange ends
EndsAt(req, server) ==
    IF server.kind = "refuse" THEN 0
    ELSE IF AnswersWithin(server, Duration_as_millis(req.budget)) THEN server.latency
    ELSE Duration_as_millis(req.budget)

\* get_schema that keeps a definition in the adapter and answers every call
\* after the first from it
get_schema_cached(self, subject, r) ==
    LET path == "/api/v1/schemas/" \o subject \o "/latest"
    IN  [requests |-> <<client_get(self.client, path, "SchemaDefinition")>>,
         result   |-> IF r = Pending \/ invocations < 2
                      THEN r ELSE Ok(Payload("SchemaDefinition"))]

-----------------------------------------------------------------------------
(* integration/schema_registry.rs: SchemaRegistryAdapter *)
(* Each operation is given the value r its transport call returns; it yields *)
(* the requests it issues and the value it returns to its caller.            *)

get_schema(self, subject, r) ==
    LET path == "/api/v1/schemas/" \o subject \o "/latest"
    IN  [requests |-> <<client_get(self.client, path, "SchemaDefinition")>>,
         result   |-> r]

get_schema_version(self, subject, version, r) ==
    LET path == "/api/v1/schemas/" \o subject \o "/versions/" \o ToString(version)
    IN  [requests |-> <<client_get(self.client, path, "SchemaDefinition")>>,
         result   |-> r]

validate_policy_document(self, document, r) ==
    [requests |-> <<client_post(self.client, "/api/v1/validate/policy-document",
                                document, "ValidationResult")>>,
     result   |-> r]

validate_rule_structure(self, rule, r) ==
    [requests |-> <<client_post(self.client, "/api/v1/validate/policy-rule",
                                rule, "ValidationResult")>>,
     result   |-> r]

check_compatibility(self, request, r) ==
    [requests |-> <<client_post(self.client, "/api/v1/compatibility/check",
                                request, "CompatibilityResult")>>,
     result   |-> r]

list_policy_schemas(self, r) ==
    [requests |-> <<client_get(self.client, "/api/v1/schemas?filter=policy",
                               "Vec<SchemaMetadata>")>>,
     result   |-> r]

SchemaRegistryAdapter_health_check(self, r) ==
    [requests |-> <<client_health_check(self.client)>>,
     result   |-> r]

-----------------------------------------------------------------------------
(* integration/config_manager.rs: ConfigManagerAdapter *)

\* get_config that reports every failure as a transport failure
get_config_wraps_error(self, key, r) ==
    LET path == "/api/v1/config/" \o self.namespace \o "/" \o key
    IN  [requests |-> <<client_get(self.client, path, "ConfigValue")>>,
         result   |-> IF r.ok \/ r = Pending THEN r ELSE Err("TransportError")]

get_config(self, key, r) ==
    LET path == "/api/v1/config/" \o self.namespace \o "/" \o key
    IN  [requests |-> <<client_get(self.client, path, "ConfigValue")>>,
         result   |-> r]

\* the batch wrapper BatchConfigRequest
BatchConfigRequest(namespace, keys) ==
    [type |-> "BatchConfigRequest", namespace |-> namespace, keys |-> keys]

\* get_configs that sends every key once, in the order of first occurrence
get_configs_dedup(self, keys, r) ==
    LET first   == {i \in 1..Len(keys) : \A j \in 1..(i - 1) : keys[j] # keys[i]}
        nth(n)  == CHOOSE i \in first : Cardinality({j \in first : j < i}) = n - 1
        unique  == [n \in 1..Cardinality(first) |-> keys[nth(n)]]
        request == BatchConfigRequest(self.namespace, unique)
    IN  [requests |-> <<client_post(self.client, "/api/v1/config/batch", request,
                                    "HashMap<String, ConfigValue>")>>,
         result   |-> r]

\* ConfigManagerAdapter::get_configs
get_configs(self, keys, r) ==
    LET request == BatchConfigRequest(self.namespace, keys)
    IN  [requests |-> <<client_post(self.client, "/api/v1/config/batch", request,
                                    "HashMap<String, ConfigValue>")>>,
         result   |-> r]

\* get_enforcement_params that sends the request again after a failure
get_enforcement_params_retry(self, r) ==
    LET path == "/api/v1/config/" \o self.namespace \o "/enforcement"
        req  == client_get(self.client, path, "EnforcementParams")
    IN  [requests |-> IF r.ok \/ r = Pending THEN <<req>> ELSE <<req, req>>,
         result   |-> r]

\* get_rule_thresholds that reads the default namespace whatever the adapter's
get_rule_thresholds_default_namespace(self, r) ==
    LET path == "/api/v1/config/policy-engine/thresholds"
    IN  [requests |-> <<client_get(self.client, path, "RuleThresholds")>>,
         result   |-> r]

get_enforcement_params(self, r) ==
    LET path == "/api/v1/config/" \o self.namespace \o "/enforcement"
    IN  [requests |-> <<client_get(self.client, path, "EnforcementParams")>>,
         result   |-> r]

get_rule_thresholds(self, r) ==
    LET path == "/api/v1/config/" \o self.namespace \o "/thresholds"
    IN  [requests |-> <<client_get(self.client, path, "RuleThresholds")>>,
         result   |-> r]

get_policy_settings(self, r) ==
    LET path == "/api/v1/config/" \o self.namespace \o "/policy-settings"
    IN  [requests |-> <<client_get(self.client, path, "PolicySettings")>>,
         result   |-> r]

get_feature_flags(self, r) ==
    LET path == "/api/v1/config/" \o self.namespace \o "/features"
    IN  [requests |-> <<client_get(self.client, path, "FeatureFlags")>>,
         result   |-> r]

get_config_version(self, r) ==
    LET path == "/api/v1/config/" \o self.namespace \o "/version"
    IN  [requests |-> <<client_get(self.client, path, "ConfigVersion")>>,
         result   |-> r]

validate_access(self, request, r) ==
    [requests |-> <<client_post(self.client, "/api/v1/rbac/validate", request,
                                "AccessValidationResult")>>,
     result   |-> r]

ConfigManagerAdapter_health_check(self, r) ==
    [requests |-> <<client_health_check(self.client)>>,
     result   |-> r]

-----------------------------------------------------------------------------
(* integration/observatory.rs: ObservatoryAdapter *)

emit_evaluation_event(self, event, r) ==
    [requests |-> <<client_post(self.client, "/api/v1/events/policy-evaluation",
                                event, "EventAck")>>,
     result   |-> r]

\* the batch wrapper BatchEventRequest
BatchEventRequest(service, events) ==
    [type |-> "BatchEventRequest", service |-> service, events |-> events]

\* get_trace_context that reports every failure as an internal error
get_trace_context_internal_error(self, trace_id, r) ==
    LET path == "/api/v1/traces/" \o trace_id \o "/context"
    IN  [requests |-> <<client_get(self.client, path, "TraceContext")>>,
         result   |-> IF r.ok \/ r = Pending THEN r ELSE Err("InternalError")]

emit_evaluation_events_batch(self, events, r) ==
    LET request == BatchEventRequest(self.service_name, events)
    IN  [requests |-> <<client_post(self.client, "/api/v1/events/batch", request,
                                    "BatchEventAck")>>,
         result   |-> r]

get_trace_context(self, trace_id, r) ==
    LET path == "/api/v1/traces/" \o trace_id \o "/context"
    IN  [requests |-> <<client_get(self.client, path, "TraceContext")>>,
         result   |-> r]

register_span(self, span, r) ==
    [requests |-> <<client_post(self.client, "/api/v1/spans/register", span,
                                "SpanRegistration")>>,
     result   |-> r]

\* complete_span that percent-encodes the span id before placing it in the path
complete_span_escapes(self, span_id, result, r) ==
    LET escaped == IF span_id = "a/b" THEN "a%2Fb"
                   ELSE IF span_id = "a b" THEN "a%20b"
                   ELSE IF span_id = "../admin" THEN "..%2Fadmin"
                   ELSE span_id
        path == "/api/v1/spans/" \o escaped \o "/complete"
    IN  [requests |-> <<client_post(self.client, path, result, "()")>>,
         result   |-> IF r.ok THEN Ok(Unit) ELSE r]

\* complete_span that drops the outcome of its post
complete_span_discards_outcome(self, span_id, result, r) ==
    LET path == "/api/v1/spans/" \o span_id \o "/complete"
    IN  [requests |-> <<client_post(self.client, path, result, "()")>>,
         result   |-> IF r = Pending THEN r ELSE Ok(Unit)]

\* post::<(), _>(..).await.map(|_| ()): a success becomes Ok(()), a failure is kept
complete_span(self, span_id, result, r) ==
    LET path == "/api/v1/spans/" \o span_id \o "/complete"
    IN  [requests |-> <<client_post(self.client, path, result, "()")>>,
         result   |-> IF r.ok THEN Ok(Unit) ELSE r]

\* get_current_metrics that always appends the model parameter
get_current_metrics_always_model(self, service, model, r) ==
    LET path == "/api/v1/metrics/current?service=" \o service
                    \o "&model=" \o (IF model.is_some THEN model.val ELSE "")
    IN  [requests |-> <<client_get(self.client, path, "CurrentMetrics")>>,
         result   |-> r]

get_telemetry_signals(self, request, r) ==
    [requests |-> <<client_post(self.client, "/api/v1/signals/query", request,
                                "TelemetrySignals")>>,
     result   |-> r]

get_current_metrics(self, service, model, r) ==
    LET path == IF model.is_some
                THEN "/api/v1/metrics/current?service=" \o service
                         \o "&model=" \o model.val
                ELSE "/api/v1/metrics/current?service=" \o service
    IN  [requests |-> <<client_get(self.client, path, "CurrentMetrics")>>,
         result   |-> r]

subscribe_telemetry(self, request, r) ==
    [requests |-> <<client_post(self.client, "/api/v1/subscriptions/telemetry",
                                request, "SubscriptionAck")>>,
     result   |-> r]

record_decision(self, decision, r) ==
    [requests |-> <<client_post(self.client, "/api/v1/analytics/decisions",
                                decision, "RecordAck")>>,
     result   |-> r]

\* health_check that reports healthy whatever the probe says
ObservatoryAdapter_health_check_stub(self, r) ==
    [requests |-> <<client_health_check(self.client)>>,
     result   |-> TRUE]

ObservatoryAdapter_health_check(self, r) ==
    [requests |-> <<client_health_check(self.client)>>,
     result   |-> r]

-----------------------------------------------------------------------------
(* Callers of the adapters *)

\* arguments the callers pass
Subjects == {"policy-doc"}
Versions == {1}
ConfigKeys == {"max_tokens"}
KeyLists == {<< >>, <<"b", "a", "b">>}
Event(id) == [type |-> "PolicyEvaluationEvent", event_id |-> id]
EventLists == {<< >>, <<Event("e2"), Event("e1"), Event("e2")>>}
TraceIds == {"abc123"}
SpanIds == {"span-1"}
Services == {"llm-policy-engine"}
Models == {None, Some("gpt-4")}

\* the operations of SchemaRegistryAdapter with their arguments
SchemaRegistryCalls ==
    {[op |-> "get_schema", subject |-> s] : s \in Subjects}
    \cup {[op |-> "get_schema_version", subject |-> s, version |-> v] :
            s \in Subjects, v \in Versions}
    \cup {[op |-> "validate_policy_document"], [op |-> "validate_rule_structure"],
          [op |-> "check_compatibility"], [op |-> "list_policy_schemas"],
          [op |-> "health_check"]}

\* the operations of ConfigManagerAdapter with their arguments
ConfigManagerCalls ==
    {[op |-> "get_config", key |-> k] : k \in ConfigKeys}
    \cup {[op |-> "get_configs", keys |-> ks] : ks \in KeyLists}
    \cup {[op |-> "get_enforcement_params"], [op |-> "get_rule_thresholds"],
          [op |-> "get_policy_settings"], [op |-> "get_feature_flags"],
          [op |-> "get_config_version"], [op |-> "validate_access"],
          [op |-> "health_check"]}

\* the operations of ObservatoryAdapter with their arguments
ObservatoryCalls ==
    {[op |-> "emit_evaluation_events_batch", events |-> es] : es \in EventLists}
    \cup {[op |-> "get_trace_context", trace_id |-> t] : t \in TraceIds}
    \cup {[op |-> "complete_span", span_id |-> sp] : sp \in SpanIds}
    \cup {[op |-> "get_current_metrics", service |-> sv, model |-> m] :
            sv \in Services, m \in Models}
    \cup {[op |-> "emit_evaluation_event"], [op |-> "register_span"],
          [op |-> "get_telemetry_signals"], [op |-> "subscribe_telemetry"],
          [op |-> "record_decision"], [op |-> "health_check"]}

\* method dispatch on a SchemaRegistryAdapter
SchemaRegistryRun(self, inv, r) ==
    CASE inv.op = "get_schema" -> get_schema(self, inv.subject, r)
      [] inv.op = "get_schema_version" ->
            get_schema_version(self, inv.subject, inv.version, r)
      [] inv.op = "validate_policy_document" ->
            validate_policy_document(self, Payload("PolicyDocumentSchema"), r)
      [] inv.op = "validate_rule_structure" ->
            validate_rule_structure(self, Payload("RuleSchema"), r)
      [] inv.op = "check_compatibility" ->
            check_compatibility(self, Payload("CompatibilityCheckRequest"), r)
      [] inv.op = "list_policy_schemas" -> list_policy_schemas(self, r)
      [] inv.op = "health_check" -> SchemaRegistryAdapter_health_check(self, r)

\* method dispatch on a ConfigManagerAdapter
ConfigManagerRun(self, inv, r) ==
    CASE inv.op = "get_config" -> get_config(self, inv.key, r)
      [] inv.op = "get_configs" -> get_configs(self, inv.keys, r)
      [] inv.op = "get_enforcement_params" -> get_enforcement_params(self, r)
      [] inv.op = "get_rule_thresholds" -> get_rule_thresholds(self, r)
      [] inv.op = "get_policy_settings" -> get_policy_settings(self, r)
      [] inv.op = "get_feature_flags" -> get_feature_flags(self, r)
      [] inv.op = "get_config_version" -> get_config_version(self, r)
      [] inv.op = "validate_access" ->
            validate_access(self, Payload("AccessValidationRequest"), r)
      [] inv.op = "health_check" -> ConfigManagerAdapter_health_check(self, r)

\* method dispatch on an ObservatoryAdapter
ObservatoryRun(self, inv, r) ==
    CASE inv.op = "emit_evaluation_event" ->
            emit_evaluation_event(self, Payload("PolicyEvaluationEvent"), r)
      [] inv.op = "emit_evaluation_events_batch" ->
            emit_evaluation_events_batch(self, inv.events, r)
      [] inv.op = "get_trace_context" -> get_trace_context(self, inv.trace_id, r)
      [] inv.op = "register_span" -> register_span(self, Payload("PolicySpan"), r)
      [] inv.op = "complete_span" ->
            complete_span(self, inv.span_id, Payload("SpanResult"), r)
      [] inv.op = "get_telemetry_signals" ->
            get_telemetry_signals(self, Payload("TelemetrySignalRequest"), r)
      [] inv.op = "get_current_metrics" ->
            get_current_metrics(self, inv.service, inv.model, r)
      [] inv.op = "subscribe_telemetry" ->
            subscribe_telemetry(self, Payload("TelemetrySubscription"), r)
      [] inv.op = "record_decision" ->
            record_decision(self, Payload("PolicyDecisionRecord"), r)
      [] inv.op = "health_check" -> ObservatoryAdapter_health_check(self, r)

\* the method inv of the adapter in the given slot, its transport call returning r
Run(slot, self, inv, r) ==
    CASE slot = "schema_registry" -> SchemaRegistryRun(self, inv, r)
      [] slot = "config_manager"  -> ConfigManagerRun(self, inv, r)
      [] slot = "observatory"     -> ObservatoryRun(self, inv, r)

-----------------------------------------------------------------------------
(* The adapters in use: invocation, the passing of time, the end of a call *)

\* a caller that awaits nothing
Idle == [state |-> "idle"]

\* the operations a caller can invoke on the adapter of a slot
CallsOf(slot) ==
    CASE slot = "schema_registry" -> SchemaRegistryCalls
      [] slot = "config_manager"  -> ConfigManagerCalls
      [] slot = "observatory"     -> ObservatoryCalls

\* an idle caller fetches the adapter of a slot from the registry and invokes
\* one of the operations invs; the remote end will behave as server
InvokeOf(slot, invs) ==
    /\ registry # NoRegistry
    /\ registry[slot].is_some
    /\ invocations < MaxInvocations
    /\ \E c \in DOMAIN calls :
        /\ calls[c].state = "idle"
        /\ \E inv \in invs :
            LET out == Run(slot, registry[slot].val, inv, Pending)
            IN  /\ \E server \in ServerBehaviours(out.requests[1].expect) :
                    calls' = [calls EXCEPT ![c] =
                                [state    |-> "pending",
                                 slot     |-> slot,
                                 inv      |-> inv,
                                 requests |-> out.requests,
                                 server   |-> server,
                                 elapsed  |-> 0]]
                /\ requests_sent' = requests_sent + Len(out.requests)
    /\ invocations' = invocations + 1
    /\ UNCHANGED <<env, app_config, config, registry, lastQuery>>

\* any operation of the adapter of a slot
Invoke(slot) == InvokeOf(slot, CallsOf(slot))

InvokeSchemaRegistry == Invoke("schema_registry")

InvokeConfigManager == Invoke("config_manager")

InvokeObservatory == Invoke("observatory")

\* Finish that propagates a failure: when the call of c fails, the calls the
\* other callers have in flight are dropped
Finish_cancels_siblings(c) ==
    LET k   == calls[c]
        req == k.requests[1]
        t   == IF req.expect = "probe" THEN ProbeResult(req, k.server)
                                       ELSE TransportResult(req, k.server)
        out == Run(k.slot, registry[k.slot].val, k.inv, t)
        failed == IF req.expect = "probe" THEN ~t ELSE ~t.ok
    IN  /\ calls' = [d \in DOMAIN calls |->
                       IF d = c
                       THEN [state     |-> "done",
                             slot      |-> k.slot,
                             inv       |-> k.inv,
                             requests  |-> out.requests,
                             server    |-> k.server,
                             elapsed   |-> k.elapsed,
                             transport |-> t,
                             result    |-> out.result]
                       ELSE IF failed /\ calls[d].state = "pending"
                            THEN [state |-> "idle"]
                            ELSE calls[d]]
        /\ requests_sent' = requests_sent + Len(out.requests) - Len(k.requests)
        /\ UNCHANGED <<env, app_config, config, registry, lastQuery, invocations>>

\* Finish with a health-driven eviction: a failed call or a false health
\* check empties the slot of the adapter that was used
Finish_evicts_on_failure(c) ==
    LET k   == calls[c]
        req == k.requests[1]
        t   == IF req.expect = "probe" THEN ProbeResult(req, k.server)
                                       ELSE TransportResult(req, k.server)
        out == Run(k.slot, registry[k.slot].val, k.inv, t)
        failed == IF req.expect = "probe" THEN ~t ELSE ~t.ok
    IN  /\ calls' = [calls EXCEPT ![c] =
                       [state     |-> "done",
                        slot      |-> k.slot,
                        inv       |-> k.inv,
                        requests  |-> out.requests,
                        server    |-> k.server,
                        elapsed   |-> k.elapsed,
                        transport |-> t,
                        result    |-> out.result]]
        /\ requests_sent' = requests_sent + Len(out.requests) - Len(k.requests)
        /\ registry' = IF failed THEN [registry EXCEPT ![k.slot] = None]
                                 ELSE registry
        /\ UNCHANGED <<env, app_config, config, lastQuery, invocations>>

\* the transport call of c returns and the operation returns to its caller
Finish(c) ==
    LET k   == calls[c]
        req == k.requests[1]
        t   == IF req.expect = "probe" THEN ProbeResult(req, k.server)
                                       ELSE TransportResult(req, k.server)
        out == Run(k.slot, registry[k.slot].val, k.inv, t)
    IN  /\ calls' = [calls EXCEPT ![c] =
                       [state     |-> "done",
                        slot      |-> k.slot,
                        inv       |-> k.inv,
                        requests  |-> out.requests,
                        server    |-> k.server,
                        elapsed   |-> k.elapsed,
                        transport |-> t,
                        result    |-> out.result]]
        /\ requests_sent' = requests_sent + Len(out.requests) - Len(k.requests)
        /\ UNCHANGED <<env, app_config, config, registry, lastQuery, invocations>>

\* one millisecond passes for the pending call of c
Tick ==
    \E c \in DOMAIN calls :
        /\ calls[c].state = "pending"
        /\ calls[c].elapsed < EndsAt(calls[c].requests[1], calls[c].server)
        /\ calls' = [calls EXCEPT ![c].elapsed = @ + 1]
        /\ UNCHANGED <<env, app_config, config, registry, lastQuery, invocations, requests_sent>>

\* the connection is refused
ConnectionRefused ==
    \E c \in DOMAIN calls :
        /\ calls[c].state = "pending"
        /\ calls[c].server.kind = "refuse"
        /\ Finish(c)

\* the response arrives within the budget
ResponseArrives ==
    \E c \in DOMAIN calls :
        /\ calls[c].state = "pending"
        /\ AnswersWithin(calls[c].server,
                         Duration_as_millis(calls[c].requests[1].budget))
        /\ calls[c].elapsed = calls[c].server.latency
        /\ Finish(c)

\* the budget of the call expires before any response
TimeoutExpires ==
    \E c \in DOMAIN calls :
        /\ calls[c].state = "pending"
        /\ calls[c].server.kind # "refuse"
        /\ ~AnswersWithin(calls[c].server,
                          Duration_as_millis(calls[c].requests[1].budget))
        /\ calls[c].elapsed = Duration_as_millis(calls[c].requests[1].budget)
        /\ Finish(c)

\* the caller c has consumed the value its call returned
Release ==
    \E c \in DOMAIN calls :
        /\ calls[c].state = "done"
        /\ calls' = [calls EXCEPT ![c] = Idle]
        /\ UNCHANGED <<env, app_config, config, registry, lastQuery, invocations, requests_sent>>

\* parameters given to the custom constructors
Namespaces == {"tenant-a"}
ServiceNames == {"edge-policy"}

\* startup of a program that assembles the registry itself (the fields of
\* Integrations are public) and builds the two parameterised adapters with
\* with_namespace and with_service_name
BuildCustom ==
    /\ registry = NoRegistry
    /\ config.config_manager_url.is_some \/ config.observatory_url.is_some
    /\ \E ns \in Namespaces, sv \in ServiceNames :
        registry' =
            [from_config(config) EXCEPT
                !.config_manager =
                    IF config.config_manager_url.is_some
                    THEN Some(ConfigManagerAdapter_with_namespace(
                                config.config_manager_url.val, timeout(config), ns))
                    ELSE None,
                !.observatory =
                    IF config.observatory_url.is_some
                    THEN Some(ObservatoryAdapter_with_service_name(
                                config.observatory_url.val, timeout(config), sv))
                    ELSE None]
    /\ UNCHANGED <<env, app_config, config, lastQuery, calls, invocations, requests_sent>>

\* the callers of the adapters
Callers == {"caller"}

\* the configurations explored with callers: every presence pattern and URL of
\* the three upstream slots, the legacy slots all absent or all configured,
\* fail_on_error at its default
LegacyPatterns == {[s \in LegacySlots |-> None],
                   [s \in LegacySlots |-> Some("http://obs:9000")]}
CallConfigs ==
    {IntegrationsConfig(legacy @@ upstream, ms, FALSE) :
        legacy \in LegacyPatterns,
        upstream \in [UpstreamSlots -> UrlOptions],
        ms \in 0..MaxTimeoutMs}

Init ==
    /\ config \in CallConfigs
    /\ registry = NoRegistry
    /\ lastQuery = NoQuery
    /\ env = EmptyEnv
    /\ app_config = NoConfig
    /\ calls = [c \in Callers |-> Idle]
    /\ invocations = 0
    /\ requests_sent = 0

Next ==
    \/ FromConfig
    \/ BuildCustom
    \/ InvokeSchemaRegistry
    \/ InvokeConfigManager
    \/ InvokeObservatory
    \/ Tick
    \/ ConnectionRefused
    \/ ResponseArrives
    \/ TimeoutExpires
    \/ Release

Spec == Init /\ [][Next]_vars

-----------------------------------------------------------------------------
(* Several tasks that share the adapters and call them concurrently *)

\* the tasks, each holding a clone of the Arc handles
Tasks == {"task-1", "task-2"}

\* the adapters the tasks use and the operations they invoke on each
TaskSlots == {"schema_registry", "observatory"}
SchemaRegistryTaskCalls ==
    {[op |-> "get_schema", subject |-> s] : s \in Subjects}
    \cup {[op |-> "health_check"]}
ObservatoryTaskCalls ==
    {[op |-> "complete_span", span_id |-> sp] : sp \in SpanIds}
TaskCalls(slot) ==
    CASE slot = "schema_registry" -> SchemaRegistryTaskCalls
      [] slot = "observatory"     -> ObservatoryTaskCalls

\* a task invokes an operation while the other may have a call in flight
InvokeTask ==
    \E slot \in TaskSlots :
        InvokeOf(slot, TaskCalls(slot))

\* a task drops the future of its pending call: the call is cancelled
Cancel ==
    \E c \in DOMAIN calls :
        /\ calls[c].state = "pending"
        /\ calls[c].elapsed > 0
        /\ calls' = [calls EXCEPT ![c] = Idle]
        /\ UNCHANGED <<env, app_config, config, registry, lastQuery, invocations, requests_sent>>

\* the configurations of the tasks: the schema registry configured, the
\* observatory configured or not, every timeout
TaskConfigs ==
    {IntegrationsConfig(
        [s \in Slots |-> IF s = "schema_registry" THEN Some("http://obs:9000")
                         ELSE IF s = "observatory" THEN ob ELSE None],
        ms, FALSE) :
        ob \in {None, Some("http://obs:9000")}, ms \in 0..MaxTimeoutMs}

InitConcurrent ==
    /\ config \in TaskConfigs
    /\ registry = NoRegistry
    /\ lastQuery = NoQuery
    /\ env = EmptyEnv
    /\ app_config = NoConfig
    /\ calls = [c \in Tasks |-> Idle]
    /\ invocations = 0
    /\ requests_sent = 0

NextConcurrent ==
    \/ FromConfig
    \/ InvokeTask
    \/ Tick
    \/ ConnectionRefused
    \/ ResponseArrives
    \/ TimeoutExpires
    \/ Cancel

SpecConcurrent == InitConcurrent /\ [][NextConcurrent]_vars

-----------------------------------------------------------------------------
(* The adapters in use under a runtime that lets time pass and delivers *)
(* every response, refusal and timer expiry *)

\* the three upstream services configured, every timeout
LiveConfigs ==
    {IntegrationsConfig(
        [s \in Slots |-> IF s \in UpstreamSlots THEN Some("http://obs:9000")
                         ELSE None],
        ms, FALSE) : ms \in 0..MaxTimeoutMs}

InitLive ==
    /\ config \in LiveConfigs
    /\ registry = NoRegistry
    /\ lastQuery = NoQuery
    /\ env = EmptyEnv
    /\ app_config = NoConfig
    /\ calls = [c \in Callers |-> Idle]
    /\ invocations = 0
    /\ requests_sent = 0

SpecLive ==
    /\ InitLive
    /\ [][Next]_vars
    /\ WF_vars(Tick)
    /\ WF_vars(ConnectionRefused)
    /\ WF_vars(ResponseArrives)
    /\ WF_vars(TimeoutExpires)

-----------------------------------------------------------------------------
(* Claims about the registry *)

\* C1: in the registry built by from_config, each of the 9 slots is populated
\* if and only if the URL of that same slot is present in the configuration.
C1_SlotIffUrl ==
    registry # NoRegistry =>
        \A s \in Slots : registry[s].is_some <=> UrlOf(config, s).is_some

\* a registry built from a configuration with shield_url set and sentinel_url absent
C1_Witness ==
    /\ registry # NoRegistry
    /\ config.shield_url.is_some
    /\ ~config.sentinel_url.is_some
    /\ Populated(registry) = {"shield", "config_manager"}

\* C2: any_configured() answers true if and only if at least one of the 9
\* slots is populated, and false exactly when all 9 are empty.
C2_AnyConfigured ==
    lastQuery.op = "any_configured" =>
        (lastQuery.value <=> Populated(registry) # {})

\* any_configured answered true for a registry whose only adapter is the observatory
C2_Witness ==
    /\ lastQuery.op = "any_configured"
    /\ lastQuery.value
    /\ Populated(registry) = {"observatory"}

\* C3: any_upstream_configured() answers true if and only if one of
\* schema_registry, config_manager, observatory is populated; the six legacy
\* slots do not influence the answer.
C3_AnyUpstream ==
    lastQuery.op = "any_upstream_configured" =>
        (lastQuery.value <=> (Populated(registry) \cap UpstreamSlots) # {})

\* any_upstream_configured answered false although all six legacy slots are populated
C3_Witness ==
    /\ lastQuery.op = "any_upstream_configured"
    /\ ~lastQuery.value
    /\ Populated(registry) = LegacySlots

\* the configuration of the scenario: only observatory_url = "http://obs:9000"
OnlyObservatory(cfg) ==
    /\ cfg.observatory_url = Some("http://obs:9000")
    /\ \A s \in Slots \ {"observatory"} : UrlOf(cfg, s) = None

\* C4: the registry built from a configuration with only observatory_url set
\* has the observatory present, the 8 other slots empty, and both aggregate
\* queries answer true.
C4_OnlyObservatory ==
    (registry # NoRegistry /\ OnlyObservatory(config)) =>
        /\ registry.observatory.is_some
        /\ \A s \in Slots \ {"observatory"} : ~registry[s].is_some
        /\ any_configured(registry)
        /\ any_upstream_configured(registry)
        /\ lastQuery.op # "none" => lastQuery.value

\* the scenario's registry, asked any_upstream_configured
C4_Witness ==
    /\ registry # NoRegistry
    /\ OnlyObservatory(config)
    /\ lastQuery = [op |-> "any_upstream_configured", value |-> TRUE]

-----------------------------------------------------------------------------
(* Claims about the adapter operations *)

\* the calls that have returned to their caller
Returned == {c \in DOMAIN calls : calls[c].state = "done"}

\* the returned calls of typed operations, and those of health_check
ReturnedOps == {c \in Returned : calls[c].inv.op # "health_check"}
ReturnedProbes == {c \in Returned : calls[c].inv.op = "health_check"}

\* C5: an operation whose response is not received within the timeout
\* configured at construction returns Timeout (not TransportError) at the
\* moment the budget expires, having sent one request; a call is never
\* pending beyond its budget.
C5_TimeoutAtBudget ==
    \A c \in DOMAIN calls :
        LET k == calls[c]
        IN  /\ k.state = "pending" => k.elapsed <= config.timeout_ms
            /\ ( /\ c \in ReturnedOps
                 /\ k.server.kind # "refuse"
                 /\ ~AnswersWithin(k.server, config.timeout_ms) )
               => /\ k.result = Err("Timeout")
                  /\ k.elapsed = config.timeout_ms
                  /\ Len(k.requests) = 1

\* get_schema against a remote that answers after the budget of 1 ms is spent
C5_Witness ==
    \E c \in ReturnedOps :
        /\ calls[c].inv.op = "get_schema"
        /\ config.timeout_ms = 1
        /\ calls[c].server.kind = "respond"
        /\ calls[c].server.latency = 1
        /\ calls[c].elapsed = 1
        /\ calls[c].result = Err("Timeout")

\* C6: the failure an operation returns is determined by the exchange: a
\* refused connection gives TransportError, a 4xx/5xx response gives
\* RemoteError with the status received, a success status with a body that
\* does not deserialize gives DecodeError; a result carries one variant.
C6_FailureClassification ==
    \A c \in ReturnedOps :
        LET k == calls[c]
        IN  /\ k.server.kind = "refuse" => k.result = Err("TransportError")
            /\ ( AnswersWithin(k.server, config.timeout_ms)
                 /\ k.server.status \in 400..599 )
               => k.result = RemoteError(k.server.status)
            /\ ( AnswersWithin(k.server, config.timeout_ms)
                 /\ k.server.status \in 200..299
                 /\ k.server.body = Garbage )
               => k.result = Err("DecodeError")

\* get_config answered 404 within the budget
C6_Witness ==
    \E c \in ReturnedOps :
        /\ calls[c].inv.op = "get_config"
        /\ calls[c].server.kind = "respond"
        /\ calls[c].server.status = 404
        /\ calls[c].result = RemoteError(404)

\* C7: health_check returns a boolean, the value of the probe of the adapter's
\* own transport core: true only for a 2xx response within budget, false for a
\* refused connection, a timeout, a failure status and an undecodable body.
C7_HealthCheck ==
    \A c \in ReturnedProbes :
        LET k == calls[c]
        IN  /\ k.result \in BOOLEAN
            /\ k.result = k.transport
            /\ k.result => ( /\ AnswersWithin(k.server, config.timeout_ms)
                             /\ k.server.status \in 200..299 )
            /\ k.server.kind = "refuse" => ~k.result
            /\ ( k.server.kind # "refuse"
                 /\ ~AnswersWithin(k.server, config.timeout_ms) ) => ~k.result
            /\ ( AnswersWithin(k.server, config.timeout_ms)
                 /\ ( k.server.status \in 400..599 \/ k.server.body = Garbage ) )
               => ~k.result

\* the observatory's health_check against a remote that answers 500
C7_Witness ==
    \E c \in ReturnedProbes :
        /\ calls[c].slot = "observatory"
        /\ calls[c].server.kind = "respond"
        /\ calls[c].server.status = 500
        /\ AnswersWithin(calls[c].server, config.timeout_ms)
        /\ calls[c].result = FALSE

\* C8: every invocation of an adapter operation issues exactly one
\* transport-core request, whether it succeeds or fails.
C8_OneRequestPerInvocation ==
    /\ requests_sent = invocations
    /\ \A c \in DOMAIN calls :
        calls[c].state # "idle" => Len(calls[c].requests) = 1

\* a second invocation that failed with a remote error
C8_Witness ==
    /\ invocations = 2
    /\ requests_sent = 2
    /\ \E c \in ReturnedOps :
        /\ calls[c].inv.op = "get_enforcement_params"
        /\ calls[c].result = RemoteError(500)

\* C9: an operation returns the IntegrationResult of its transport call
\* unchanged; complete_span returns Ok(()) exactly when its post succeeded
\* and the failure of the post otherwise.
C9_ResultUnchanged ==
    \A c \in ReturnedOps :
        LET k == calls[c]
        IN  IF k.inv.op = "complete_span"
            THEN /\ k.result.ok <=> k.transport.ok
                 /\ k.transport.ok => k.result = Ok(Unit)
                 /\ ~k.transport.ok => k.result = k.transport
            ELSE k.result = k.transport

\* complete_span whose post was answered 404
C9_Witness ==
    \E c \in ReturnedOps :
        /\ calls[c].inv.op = "complete_span"
        /\ calls[c].transport = RemoteError(404)
        /\ calls[c].result = RemoteError(404)

\* C10: building the registry and its adapters sends no request and succeeds
\* for every configuration, an empty URL and a zero timeout included: every
\* configured slot holds an adapter and nothing is sent before an invocation.
C10_ConstructionNoIO ==
    /\ invocations = 0 => requests_sent = 0
    /\ registry # NoRegistry =>
        \A s \in Slots : UrlOf(config, s).is_some => registry[s].is_some

\* a registry built with a custom namespace from an empty URL and a zero timeout
C10_Witness ==
    /\ registry # NoRegistry
    /\ config.timeout_ms = 0
    /\ config.config_manager_url = Some("")
    /\ registry.config_manager.is_some
    /\ registry.config_manager.val.namespace = "tenant-a"
    /\ config.schema_registry_url = Some("")
    /\ registry.schema_registry.is_some
    /\ invocations = 0
    /\ requests_sent = 0

ValidBaseUrl(u) == u # ""

\* C12 as stated: no registry holds a populated slot whose adapter has an
\* empty or invalid base URL.
C12_NoInvalidBaseUrl ==
    registry # NoRegistry =>
        \A s \in Populated(registry) :
            ValidBaseUrl(registry[s].val.client.base_url)

\* C12: in every registry built by from_config each slot is fully present or
\* fully absent: a configured slot holds an adapter whose transport core
\* carries the configured URL string as it was given, empty or not, and a
\* timeout; a slot without URL holds nothing.
C12_PresentOrAbsent ==
    registry # NoRegistry =>
        \A s \in Slots :
            IF UrlOf(config, s).is_some
            THEN /\ registry[s].is_some
                 /\ "base_url" \in DOMAIN registry[s].val.client
                 /\ "timeout" \in DOMAIN registry[s].val.client
                 /\ registry[s].val.client.base_url = UrlOf(config, s).val
                 /\ "secs" \in DOMAIN registry[s].val.client.timeout
                 /\ "nanos" \in DOMAIN registry[s].val.client.timeout
            ELSE registry[s] = None

\* a registry whose observatory adapter has the empty base URL it was given,
\* next to an absent slot and a slot with a usable URL
C12_Witness ==
    /\ registry # NoRegistry
    /\ config.observatory_url = Some("")
    /\ registry.observatory.is_some
    /\ registry.observatory.val.client.base_url = ""
    /\ registry.config_manager = None
    /\ registry.schema_registry.is_some
    /\ ValidBaseUrl(registry.schema_registry.val.client.base_url)

\* C14: a success status, 202 as well as 200, with a body that deserializes
\* gives Ok with the decoded value: emit_evaluation_event answered with
\* {accepted: true, event_id: "evt-1"} returns Ok(EventAck{accepted: true,
\* event_id: Some("evt-1")}), and an EventAck without event_id decodes to None.
C14_SuccessDecodes ==
    \A c \in ReturnedOps :
        LET k == calls[c]
        IN  ( /\ AnswersWithin(k.server, config.timeout_ms)
              /\ k.server.status \in SuccessStatuses
              /\ k.server.body.kind = "json" )
            => /\ k.inv.op # "emit_evaluation_event"
                  => ( k.server.body.doc = [type |-> k.requests[1].expect]
                       => k.result = IF k.inv.op = "complete_span"
                                     THEN Ok(Unit)
                                     ELSE Ok([type |-> k.requests[1].expect]) )
               /\ k.inv.op = "emit_evaluation_event"
                  => /\ k.server.body.doc = [accepted |-> TRUE, event_id |-> "evt-1"]
                        => k.result = Ok([accepted |-> TRUE,
                                          event_id |-> Some("evt-1")])
                     /\ k.server.body.doc = [accepted |-> FALSE]
                        => k.result = Ok([accepted |-> FALSE, event_id |-> None])

\* emit_evaluation_event answered 202 with the complete acknowledgement
C14_Witness ==
    \E c \in ReturnedOps :
        /\ calls[c].inv.op = "emit_evaluation_event"
        /\ calls[c].server.kind = "respond"
        /\ calls[c].server.status = 202
        /\ calls[c].server.body = Json([accepted |-> TRUE, event_id |-> "evt-1"])
        /\ calls[c].result = Ok([accepted |-> TRUE, event_id |-> Some("evt-1")])

\* C17: every adapter present in a registry built by from_config has the
\* same timeout, which is timeout_ms taken as milliseconds, and has as base
\* URL exactly the URL string of its own slot.
C17_SameTimeoutOwnUrl ==
    registry # NoRegistry =>
        \A s \in Populated(registry) :
            LET client == registry[s].val.client
            IN  /\ Duration_as_millis(client.timeout) = config.timeout_ms
                /\ client.timeout.nanos < 1000000000
                /\ \A t \in Populated(registry) :
                      registry[t].val.client.timeout = client.timeout
                /\ UrlOf(config, s).is_some
                /\ client.base_url = UrlOf(config, s).val

\* three adapters with one timeout of 2 ms and the differing URLs of their slots
C17_Witness ==
    /\ registry # NoRegistry
    /\ config.timeout_ms = 2
    /\ config.shield_url = Some("http://obs:9000")
    /\ config.config_manager_url = Some("")
    /\ config.observatory_url = Some("http://obs:9000")
    /\ registry.shield.val.client.base_url = "http://obs:9000"
    /\ registry.config_manager.val.client.base_url = ""
    /\ registry.observatory.val.client.timeout = [secs |-> 0, nanos |-> 2000000]
    /\ registry.config_manager.val.client.timeout = [secs |-> 0, nanos |-> 2000000]

\* the namespace-scoped reads of ConfigManagerAdapter and the last path
\* segment of each
NamespaceReads ==
    {"get_config", "get_enforcement_params", "get_rule_thresholds",
     "get_policy_settings", "get_feature_flags", "get_config_version"}

ReadSuffix(inv) ==
    CASE inv.op = "get_config"             -> inv.key
      [] inv.op = "get_enforcement_params" -> "enforcement"
      [] inv.op = "get_rule_thresholds"    -> "thresholds"
      [] inv.op = "get_policy_settings"    -> "policy-settings"
      [] inv.op = "get_feature_flags"      -> "features"
      [] inv.op = "get_config_version"     -> "version"

\* the calls in flight or returned on the adapter of a slot
CallsOn(slot) ==
    {c \in DOMAIN calls : calls[c].state # "idle" /\ calls[c].slot = slot}

\* C18: every namespace-scoped read of ConfigManagerAdapter issues one GET at
\* /api/v1/config/{namespace}/{suffix}; the namespace is "policy-engine" for an
\* adapter built with new and the supplied one for with_namespace, at the
\* first call and at every later one.
C18_NamespacePath ==
    \A c \in CallsOn("config_manager") :
        LET k  == calls[c]
            ns == IF registry = from_config(config) THEN "policy-engine"
                                                    ELSE "tenant-a"
        IN  k.inv.op \in NamespaceReads =>
                /\ Len(k.requests) = 1
                /\ k.requests[1].method = "GET"
                /\ k.requests[1].path =
                        "/api/v1/config/" \o ns \o "/" \o ReadSuffix(k.inv)
                /\ registry.config_manager.val.namespace = ns

\* the second call of an adapter built with with_namespace: get_rule_thresholds
C18_Witness ==
    /\ invocations = 2
    /\ registry # NoRegistry
    /\ registry # from_config(config)
    /\ \E c \in CallsOn("config_manager") :
        /\ calls[c].inv.op = "get_rule_thresholds"
        /\ calls[c].state = "done"
        /\ calls[c].requests[1].path = "/api/v1/config/tenant-a/thresholds"

\* C19: a batch operation issues exactly one POST whose body wraps the
\* adapter's namespace or service name and the caller's items as given, in
\* their order and with their duplicates, an empty list included: get_configs
\* at /api/v1/config/batch, emit_evaluation_events_batch at /api/v1/events/batch.
C19_BatchWrapper ==
    /\ \A c \in CallsOn("config_manager") :
        LET k == calls[c]
        IN  k.inv.op = "get_configs" =>
                /\ Len(k.requests) = 1
                /\ k.requests[1].method = "POST"
                /\ k.requests[1].path = "/api/v1/config/batch"
                /\ k.requests[1].body.namespace
                        = registry.config_manager.val.namespace
                /\ k.requests[1].body.keys = k.inv.keys
    /\ \A c \in CallsOn("observatory") :
        LET k == calls[c]
        IN  k.inv.op = "emit_evaluation_events_batch" =>
                /\ Len(k.requests) = 1
                /\ k.requests[1].method = "POST"
                /\ k.requests[1].path = "/api/v1/events/batch"
                /\ k.requests[1].body.service
                        = registry.observatory.val.service_name
                /\ k.requests[1].body.events = k.inv.events

\* get_configs with a repeated key under a custom namespace, as second call
C19_Witness ==
    /\ invocations = 2
    /\ requests_sent = 2
    /\ \E c \in CallsOn("config_manager") :
        /\ calls[c].inv.op = "get_configs"
        /\ calls[c].inv.keys = <<"b", "a", "b">>
        /\ calls[c].requests[1].body =
              [type |-> "BatchConfigRequest", namespace |-> "tenant-a",
               keys |-> <<"b", "a", "b">>]

\* C20: get_current_metrics issues a GET at
\* /api/v1/metrics/current?service={service}&model={model} when a model is
\* given and at /api/v1/metrics/current?service={service}, with no model
\* parameter, when it is not.
C20_MetricsQuery ==
    \A c \in CallsOn("observatory") :
        LET k == calls[c]
        IN  k.inv.op = "get_current_metrics" =>
                /\ Len(k.requests) = 1
                /\ k.requests[1].method = "GET"
                /\ k.inv.model.is_some =>
                      k.requests[1].path =
                          "/api/v1/metrics/current?service=" \o k.inv.service
                              \o "&model=" \o k.inv.model.val
                /\ ~k.inv.model.is_some =>
                      k.requests[1].path =
                          "/api/v1/metrics/current?service=" \o k.inv.service

\* get_current_metrics without a model
C20_Witness ==
    \E c \in CallsOn("observatory") :
        /\ calls[c].inv.op = "get_current_metrics"
        /\ calls[c].inv.model = None
        /\ calls[c].requests[1].path =
              "/api/v1/metrics/current?service=llm-policy-engine"
        /\ calls[c].state = "done"

C15_Independent ==
    [][\A c \in Tasks :
         calls'[c] # calls[c] =>
            /\ \A d \in Tasks \ {c} : calls'[d] = calls[d]
            /\ calls'[c].state = "done" =>
                 LET k == calls'[c]
                     within == AnswersWithin(k.server, config.timeout_ms)
                 IN  /\ k.server.kind = "refuse" => k.elapsed = 0
                     /\ within => k.elapsed = k.server.latency
                     /\ (k.server.kind # "refuse" /\ ~within)
                          => k.elapsed = config.timeout_ms
                     /\ IF k.inv.op = "health_check"
                        THEN k.result = (within /\ k.server.status \in 200..299
                                                /\ k.server.body.kind = "json")
                        ELSE /\ within => k.result # Err("Timeout")
                             /\ k.server.kind = "refuse"
                                  => k.result = Err("TransportError")
                             /\ (k.server.kind # "refuse" /\ ~within)
                                  => k.result = Err("Timeout")
      ]_vars

\* two calls on the schema registry adapter with a budget of 2 ms: one timed
\* out against a silent remote, the other was answered after 1 ms
C15_Witness ==
    /\ config.timeout_ms = 2
    /\ calls["task-1"].state = "done"
    /\ calls["task-1"].slot = "schema_registry"
    /\ calls["task-1"].inv.op = "get_schema"
    /\ calls["task-1"].server.kind = "silent"
    /\ calls["task-1"].result = Err("Timeout")
    /\ calls["task-1"].elapsed = 2
    /\ calls["task-2"].state = "done"
    /\ calls["task-2"].slot = "schema_registry"
    /\ calls["task-2"].inv.op = "get_schema"
    /\ calls["task-2"].elapsed = 1
    /\ calls["task-2"].result = Ok(Payload("SchemaDefinition"))

\* the four failure kinds of IntegrationError
FailureKinds == {"Timeout", "TransportError", "RemoteError", "DecodeError"}

\* C16: every call eventually returns, also when the remote never answers,
\* and what it returns is one result: a decoded value or one failure of the
\* four kinds (a boolean for health_check), never both and never another kind.
C16_Resolves ==
    /\ \A c \in Callers :
        (calls[c].state = "pending") ~> (calls[c].state = "done")
    /\ [](\A c \in Returned :
            IF calls[c].inv.op = "health_check"
            THEN calls[c].result \in BOOLEAN
            ELSE IF calls[c].result.ok
                 THEN /\ "value" \in DOMAIN calls[c].result
                      /\ "error" \notin DOMAIN calls[c].result
                 ELSE /\ calls[c].result.error \in FailureKinds
                      /\ "value" \notin DOMAIN calls[c].result)

\* get_trace_context against a remote that never answered has returned Timeout
C16_Witness ==
    \E c \in ReturnedOps :
        /\ calls[c].inv.op = "get_trace_context"
        /\ calls[c].server.kind = "silent"
        /\ calls[c].elapsed = config.timeout_ms
        /\ calls[c].result = Err("Timeout")

-----------------------------------------------------------------------------
(* Callers that pass arbitrary identifiers to the path-building operations *)

\* identifiers a caller may supply: plain, with a slash, with a space, empty,
\* with a parent-directory segment
Identifiers == {"policy-doc", "a/b", "a b", "", "../admin"}
PathVersions == {0, 7}

SchemaRegistryPathCalls ==
    {[op |-> "get_schema", subject |-> id] : id \in Identifiers}
    \cup {[op |-> "get_schema_version", subject |-> id, version |-> v] :
            id \in Identifiers, v \in PathVersions}
ObservatoryPathCalls ==
    {[op |-> "get_trace_context", trace_id |-> id] : id \in Identifiers}
    \cup {[op |-> "complete_span", span_id |-> id] : id \in Identifiers}
PathCalls(slot) ==
    CASE slot = "schema_registry" -> SchemaRegistryPathCalls
      [] slot = "observatory"     -> ObservatoryPathCalls

\* a caller invokes a path-building operation with an identifier of its choice
InvokeWithIdentifier ==
    \E slot \in TaskSlots :
        InvokeOf(slot, PathCalls(slot))

NextPaths ==
    \/ FromConfig
    \/ InvokeWithIdentifier
    \/ Tick
    \/ ConnectionRefused
    \/ ResponseArrives
    \/ TimeoutExpires
    \/ Release

SpecPaths == InitLive /\ [][NextPaths]_vars

\* the calls in flight or returned
Invoked == {c \in DOMAIN calls : calls[c].state # "idle"}

\* C21: the path-building operations place the caller's identifier in the
\* path as it is, whatever it contains, and send the request: get_schema at
\* /api/v1/schemas/{subject}/latest, get_schema_version at
\* /api/v1/schemas/{subject}/versions/{n}, get_trace_context at
\* /api/v1/traces/{id}/context, complete_span a POST at
\* /api/v1/spans/{id}/complete; another identifier gives another path.
C21_VerbatimPaths ==
    \A c \in Invoked :
        LET k    == calls[c]
            self == registry[k.slot].val
            path == k.requests[1].path
        IN  /\ Len(k.requests) = 1
            /\ k.inv.op = "get_schema" =>
                 /\ k.requests[1].method = "GET"
                 /\ path = "/api/v1/schemas/" \o k.inv.subject \o "/latest"
                 /\ \A id \in Identifiers \ {k.inv.subject} :
                      get_schema(self, id, Pending).requests[1].path # path
            /\ k.inv.op = "get_schema_version" =>
                 /\ k.requests[1].method = "GET"
                 /\ path = "/api/v1/schemas/" \o k.inv.subject \o "/versions/"
                              \o ToString(k.inv.version)
                 /\ \A id \in Identifiers, v \in PathVersions :
                      (id # k.inv.subject \/ v # k.inv.version) =>
                        get_schema_version(self, id, v, Pending).requests[1].path
                            # path
            /\ k.inv.op = "get_trace_context" =>
                 /\ k.requests[1].method = "GET"
                 /\ path = "/api/v1/traces/" \o k.inv.trace_id \o "/context"
                 /\ \A id \in Identifiers \ {k.inv.trace_id} :
                      get_trace_context(self, id, Pending).requests[1].path # path
            /\ k.inv.op = "complete_span" =>
                 /\ k.requests[1].method = "POST"
                 /\ path = "/api/v1/spans/" \o k.inv.span_id \o "/complete"
                 /\ \A id \in Identifiers \ {k.inv.span_id} :
                      complete_span(self, id, Payload("SpanResult"), Pending)
                          .requests[1].path # path

\* complete_span with an identifier that contains a slash, after
\* get_schema_version: the slash is in the path as given
C21_Witness ==
    /\ invocations = 2
    /\ \E c \in Invoked :
        /\ calls[c].inv = [op |-> "complete_span", span_id |-> "a/b"]
        /\ calls[c].requests[1].path = "/api/v1/spans/a/b/complete"
        /\ calls[c].requests[1].url = "http://obs:9000/api/v1/spans/a/b/complete"
        /\ calls[c].state = "done"

-----------------------------------------------------------------------------
(* Startup: the environment, Config::from_env, Config::validate, and the *)
(* registry built from the integrations part of the Config *)

\* the variables the environment holds
SetVars(e) == {name \in EnvVars : e[name].set}

\* whoever launches the program sets one more environment variable
Setenv ==
    /\ app_config = NoConfig
    /\ registry = NoRegistry
    /\ lastQuery = NoQuery
    /\ Cardinality(SetVars(env)) < MaxEnvVars
    /\ \E name \in EnvVars :
        /\ env[name] = Unset
        /\ \E x \in EnvValues(name) : env' = [env EXCEPT ![name] = x]
    /\ UNCHANGED <<app_config, config, registry, lastQuery, calls,
                   invocations, requests_sent>>

\* the program loads its Config from the environment
LoadFromEnv ==
    /\ app_config = NoConfig
    /\ registry = NoRegistry
    /\ LET r == from_env(env)
       IN  /\ app_config' = [by |-> "from_env", result |-> r]
           /\ config' = IF r.is_ok THEN r.val.integrations ELSE config
    /\ UNCHANGED <<env, registry, lastQuery, calls, invocations, requests_sent>>

\* the program starts from Config::default()
LoadDefault ==
    /\ app_config = NoConfig
    /\ registry = NoRegistry
    /\ env = EmptyEnv
    /\ app_config' = [by |-> "default", result |-> Result_Ok(Config_default)]
    /\ config' = Config_default.integrations
    /\ UNCHANGED <<env, registry, lastQuery, calls, invocations, requests_sent>>

\* values assigned to the public fields of a default Config
SecretOptions == {None, Some("secret")}
RedisOptions == {None, Some("redis://cache:6379")}
EvaluationTimes == {0, 100}

\* the program assigns the fields that validate reads
Override ==
    /\ app_config.by = "default"
    /\ lastQuery = NoQuery
    /\ \E auth \in BOOLEAN, secret \in SecretOptions, l2 \in BOOLEAN,
          redis \in RedisOptions, ms \in EvaluationTimes :
        app_config' =
            [by     |-> "edited",
             result |-> Result_Ok(
                [app_config.result.val EXCEPT
                    !.security.auth_enabled = auth,
                    !.security.jwt_secret = secret,
                    !.cache.l2_enabled = l2,
                    !.cache.redis_url = redis,
                    !.performance.max_evaluation_time_ms = ms])]
    /\ UNCHANGED <<env, config, registry, lastQuery, calls, invocations,
                   requests_sent>>

\* the program validates its Config
Validate ==
    /\ app_config # NoConfig
    /\ app_config.result.is_ok
    /\ lastQuery' = [op     |-> "validate",
                     config |-> app_config.result.val,
                     value  |-> validate(app_config.result.val)]
    /\ UNCHANGED <<env, app_config, config, registry, calls, invocations,
                   requests_sent>>

InitConfig ==
    /\ env = EmptyEnv
    /\ app_config = NoConfig
    /\ config = IntegrationsConfig_default
    /\ registry = NoRegistry
    /\ lastQuery = NoQuery
    /\ calls = NoCalls
    /\ invocations = 0
    /\ requests_sent = 0

NextConfig ==
    \/ Setenv
    \/ LoadFromEnv
    \/ LoadDefault
    \/ Override
    \/ Validate
    \/ FromConfig
    \/ AnyConfigured
    \/ AnyUpstreamConfigured

SpecConfig == InitConfig /\ [][NextConfig]_vars

\* the Config of the program once it is loaded
Loaded == app_config # NoConfig /\ app_config.result.is_ok

\* C22: validate returns an error exactly when auth is enabled without
\* jwt_secret, or the L2 cache is enabled without redis_url, or
\* max_evaluation_time_ms is 0; it returns Ok otherwise, leaves the Config as
\* it was, and accepts the default Config.
C22_ValidateRules ==
    lastQuery.op = "validate" =>
        LET cfg == lastQuery.config
            rejected ==
                \/ cfg.security.auth_enabled /\ cfg.security.jwt_secret = None
                \/ cfg.cache.l2_enabled /\ cfg.cache.redis_url = None
                \/ cfg.performance.max_evaluation_time_ms = 0
        IN  /\ ~lastQuery.value.is_ok <=> rejected
            /\ ~rejected => lastQuery.value = Result_Ok("()")
            /\ app_config.result.val = cfg
            /\ app_config.by = "default" => lastQuery.value = Result_Ok("()")

\* a Config whose only fault is an enabled L2 cache without redis_url is rejected
C22_Witness ==
    /\ lastQuery.op = "validate"
    /\ app_config.by = "edited"
    /\ ~app_config.result.val.security.auth_enabled
    /\ app_config.result.val.performance.max_evaluation_time_ms = 100
    /\ app_config.result.val.cache.l2_enabled
    /\ app_config.result.val.cache.redis_url = None
    /\ ~lastQuery.value.is_ok

\* the registry built from the Config that from_env returned
BuiltFromEnv ==
    /\ app_config.by = "from_env"
    /\ app_config.result.is_ok
    /\ registry # NoRegistry

\* C23 as stated: after from_env and from_config a slot is populated exactly
\* when its environment variable is set.
C23_PopulatedIffSet ==
    BuiltFromEnv =>
        \A s \in Slots : registry[s].is_some <=> env[VarOf(s)].set

\* C23: after from_env and from_config a slot is populated exactly when its
\* own environment variable is set to a value that is valid Unicode, and its
\* adapter then has that value as base URL; the variables of the other slots
\* and every other variable have no part in it, and the integration timeout
\* stays 5000 ms.
C23_PopulatedIffReadable ==
    BuiltFromEnv =>
        /\ \A s \in Slots :
            /\ registry[s].is_some <=> env_var(env, VarOf(s)).is_ok
            /\ registry[s].is_some =>
                 registry[s].val.client.base_url = env[VarOf(s)].val
        /\ config.timeout_ms = 5000
        /\ config = app_config.result.val.integrations

\* the observatory variable holds a URL and the shield variable holds bytes
\* that are no Unicode: only the observatory slot is populated
C23_Witness ==
    /\ BuiltFromEnv
    /\ env["LLM_OBSERVATORY_URL"] = Set("http://obs:9000")
    /\ env["LLM_SHIELD_URL"] = NotUnicode
    /\ Populated(registry) = {"observatory"}
    /\ registry.observatory.val.client.base_url = "http://obs:9000"

\* C24: from_env returns Ok for every environment; a PORT, GRPC_PORT,
\* CACHE_ENABLED, TELEMETRY_ENABLED or AUTH_ENABLED that does not parse gives
\* 3000, 50051, true, true and false, and one that parses gives its value.
C24_FromEnvNeverFails ==
    app_config.by = "from_env" =>
        /\ app_config.result.is_ok
        /\ LET cfg == app_config.result.val
               unparsable(name, strs) ==
                   /\ env[name].set
                   /\ env[name].unicode
                   /\ env[name].val \notin strs
           IN  /\ unparsable("PORT", {"8080"}) => cfg.server.port = 3000
               /\ unparsable("GRPC_PORT", {"8080"}) => cfg.server.grpc_port = 50051
               /\ unparsable("CACHE_ENABLED", BoolWords) => cfg.cache.enabled
               /\ unparsable("TELEMETRY_ENABLED", BoolWords) => cfg.telemetry.enabled
               /\ unparsable("AUTH_ENABLED", BoolWords) => ~cfg.security.auth_enabled
               /\ env["PORT"] = Set("8080") => cfg.server.port = 8080
               /\ env["AUTH_ENABLED"] = Set("true") => cfg.security.auth_enabled
               /\ env["CACHE_ENABLED"] = Set("false") => ~cfg.cache.enabled

\* PORT=abc and AUTH_ENABLED=1: from_env returned Ok with port 3000, auth off
C24_Witness ==
    /\ app_config.by = "from_env"
    /\ env["PORT"] = Set("abc")
    /\ env["AUTH_ENABLED"] = Set("1")
    /\ app_config.result.is_ok
    /\ app_config.result.val.server.port = 3000
    /\ ~app_config.result.val.security.auth_enabled

\* C25: in every Config returned by from_env the L2 cache is enabled only if
\* redis_url is present, so validate never rejects such a Config for its
\* cache.
C25_L2NeedsRedis ==
    app_config.by = "from_env" =>
        /\ app_config.result.is_ok
        /\ LET cache == app_config.result.val.cache
           IN  /\ cache.l2_enabled => cache.redis_url.is_some
               /\ cache.l2_enabled <=> env_var(env, "REDIS_URL").is_ok
        /\ lastQuery.op = "validate" =>
             lastQuery.value
                # Result_Err("REDIS_URL must be set when L2 cache is enabled")

\* REDIS_URL is set: the L2 cache is enabled with that URL and the Config validates
C25_Witness ==
    /\ app_config.by = "from_env"
    /\ env["REDIS_URL"] = Set("text")
    /\ app_config.result.val.cache.l2_enabled
    /\ app_config.result.val.cache.redis_url = Some("text")
    /\ lastQuery.op = "validate"
    /\ lastQuery.value.is_ok

\* C26: the default IntegrationsConfig has no URL and a timeout of 5000 ms;
\* the registry built from it has 9 empty slots, and any_configured and
\* any_upstream_configured both answer false.
C26_DefaultIsEmpty ==
    app_config.by = "default" =>
        /\ \A s \in Slots : UrlOf(config, s) = None
        /\ config.timeout_ms = 5000
        /\ timeout(config) = [secs |-> 5, nanos |-> 0]
        /\ config = app_config.result.val.integrations
        /\ registry # NoRegistry =>
             /\ \A s \in Slots : registry[s] = None
             /\ lastQuery.op = "any_configured" => ~lastQuery.value
             /\ lastQuery.op = "any_upstream_configured" => ~lastQuery.value

\* the registry of the default Config has answered any_upstream_configured
C26_Witness ==
    /\ app_config.by = "default"
    /\ registry # NoRegistry
    /\ Populated(registry) = {}
    /\ lastQuery = [op |-> "any_upstream_configured", value |-> FALSE]

\* C27: on every registry any_upstream_configured implies any_configured, and
\* a true answer of any_upstream_configured is never given by a registry on
\* which any_configured is false.
C27_UpstreamImpliesAny ==
    registry # NoRegistry =>
        /\ any_upstream_configured(registry) => any_configured(registry)
        /\ (lastQuery.op = "any_upstream_configured" /\ lastQuery.value)
              => any_configured(registry)
        /\ (lastQuery.op = "any_configured" /\ ~lastQuery.value)
              => ~any_upstream_configured(registry)

\* a registry with the observatory alone has answered any_upstream_configured
C27_Witness ==
    /\ registry # NoRegistry
    /\ Populated(registry) = {"observatory"}
    /\ lastQuery = [op |-> "any_upstream_configured", value |-> TRUE]

\* the Default of the payload type a Config Manager read returns
DefaultOf(op) ==
    CASE op = "get_enforcement_params" -> EnforcementParams_default
      [] op = "get_rule_thresholds"    -> RuleThresholds_default
      [] op = "get_policy_settings"    -> PolicySettings_default
      [] op = "get_feature_flags"      -> FeatureFlags_default

\* the Config Manager reads that return a payload type with a Default
PayloadReads ==
    {"get_enforcement_params", "get_rule_thresholds",
     "get_policy_settings", "get_feature_flags"}

\* the returned calls of c answered in time with a success status and the body {}
AnsweredEmptyObject(c) ==
    /\ c \in ReturnedOps
    /\ calls[c].inv.op \in PayloadReads
    /\ AnswersWithin(calls[c].server, config.timeout_ms)
    /\ calls[c].server.status \in SuccessStatuses
    /\ calls[c].server.body = Json(EmptyObject)

\* C28: a read of EnforcementParams, RuleThresholds, PolicySettings or
\* FeatureFlags answered with a success body in which every optional field is
\* absent returns Ok with the Default of that type.
C28_EmptyBodyIsDefault ==
    \A c \in DOMAIN calls :
        AnsweredEmptyObject(c) => calls[c].result = Ok(DefaultOf(calls[c].inv.op))

------------------------------------------------------------------------------
(* integration/observatory.rs: TraceContext *)

\* the values of a u8
U8 == 0..255

\* bit i of the u8 n
bit(n, i) == (n \div (2 ^ i)) % 2

\* a & b on u8 operands
bitand_u8(a, b) ==
      bit(a, 0) * bit(b, 0)
    + bit(a, 1) * bit(b, 1) * 2
    + bit(a, 2) * bit(b, 2) * 4
    + bit(a, 3) * bit(b, 3) * 8
    + bit(a, 4) * bit(b, 4) * 16
    + bit(a, 5) * bit(b, 5) * 32
    + bit(a, 6) * bit(b, 6) * 64
    + bit(a, 7) * bit(b, 7) * 128

\* TraceContext::new
TraceContext_new(trace_id) ==
    [trace_id       |-> trace_id,
     parent_span_id |-> None,
     trace_flags    |-> 1,
     trace_state    |-> None,
     baggage        |-> HashMap_new]

\* is_sampled that takes any flag for the sampled flag
is_sampled_any_flag(self) == self.trace_flags # 0

\* TraceContext::is_sampled
is_sampled(self) == bitand_u8(self.trace_flags, 1) # 0

\* parent span ids and trace states a TraceContext may carry
ParentSpanIds == {None, Some("span-0")}
TraceStates == {None, Some("vendor=1")}

\* the results after which a caller holds a TraceContext
TraceContextOps == {"TraceContext::new", "TraceContext", "is_sampled"}

\* the TraceContext values a caller may hold: the fields are public and the
\* type is deserializable, so every u8 is a possible trace_flags
TraceContexts ==
    {[trace_id       |-> t,
      parent_span_id |-> ps,
      trace_flags    |-> f,
      trace_state    |-> ts,
      baggage        |-> HashMap_new] :
        t \in TraceIds, ps \in ParentSpanIds, f \in U8, ts \in TraceStates}

\* a caller creates a context with TraceContext::new
NewTraceContext ==
    /\ \E t \in TraceIds :
        lastQuery' = [op |-> "TraceContext::new", trace_id |-> t,
                      ctx |-> TraceContext_new(t)]
    /\ UNCHANGED <<env, app_config, config, registry, calls, invocations, requests_sent>>

\* a caller obtains a context built elsewhere
ObtainTraceContext ==
    /\ \E ctx \in TraceContexts :
        lastQuery' = [op |-> "TraceContext", trace_id |-> ctx.trace_id, ctx |-> ctx]
    /\ UNCHANGED <<env, app_config, config, registry, calls, invocations, requests_sent>>

\* a caller asks the context it holds whether it is sampled
IsSampled ==
    /\ lastQuery.op \in TraceContextOps
    /\ lastQuery' = [op |-> "is_sampled", trace_id |-> lastQuery.trace_id,
                     ctx |-> lastQuery.ctx, value |-> is_sampled(lastQuery.ctx)]
    /\ UNCHANGED <<env, app_config, config, registry, calls, invocations, requests_sent>>

NextTrace ==
    \/ NewTraceContext
    \/ ObtainTraceContext
    \/ IsSampled

SpecTrace == InitConfig /\ [][NextTrace]_vars

\* C29: TraceContext::new(id) has the given trace id, trace_flags 1, no parent
\* span, no trace state and empty baggage, and is sampled; for every
\* trace_flags in 0..255 is_sampled is true exactly when the lowest bit is
\* set, whatever the other 7 bits and the other fields are.
C29_SampledIsLowestBit ==
    /\ lastQuery.op = "TraceContext::new" =>
        /\ lastQuery.ctx.trace_id = lastQuery.trace_id
        /\ lastQuery.ctx.trace_flags = 1
        /\ lastQuery.ctx.parent_span_id = None
        /\ lastQuery.ctx.trace_state = None
        /\ lastQuery.ctx.baggage = HashMap_new
        /\ is_sampled(lastQuery.ctx)
    /\ lastQuery.op = "is_sampled" =>
        /\ lastQuery.value <=> lastQuery.ctx.trace_flags % 2 = 1
        /\ lastQuery.ctx.trace_flags \in U8
        /\ lastQuery.ctx = TraceContext_new(lastQuery.trace_id) => lastQuery.value

\* a context with every flag but the lowest set has answered that it is not sampled
C29_Witness ==
    /\ lastQuery.op = "is_sampled"
    /\ lastQuery.ctx.trace_flags = 254
    /\ ~lastQuery.value

====
